---- MODULE Spec2Model ----
(***************************************************************************)
(* A model of the facil.io postoffice: the in-process publish/subscribe    *)
(* bus of src/lib/facil/core/facil_cluster.c and its fan-out over the      *)
(* cluster links between the root process and its workers.                 *)
(*                                                                         *)
(* Six families of variables:                                              *)
(*   - one process seen at the granularity of its spin locks (Spec,        *)
(*     FairSpec, SpecDispatch, SpecRefuse, SpecAttach, SpecMeta, SpecRace, *)
(*     SpecOrder, SpecConnect): subscription_create, subscription_destroy, *)
(*     channel_destroy, publish2process, perform_subscription_callback,    *)
(*     facil_pubsub_attach are cut at every lock acquisition and release;  *)
(*   - a root and its workers exchanging frames (SpecCluster,              *)
(*     SpecInactive), each frame handler being one step of the single      *)
(*     reactor thread of its process;                                      *)
(*   - the bytes of one cluster link and the cluster_pr_s that reads them  *)
(*     (SpecWire, SpecLimits), and what the worker does when the link      *)
(*     closes (SpecClose);                                                 *)
(*   - the calls of facil_glob_match on small patterns (SpecGlob);         *)
(*   - the root's end of its links, with the mock subscriptions it keeps   *)
(*     for each worker (SpecRoot);                                         *)
(*   - a fork of the process and its exit (SpecFork, FairFork, SpecExit,   *)
(*     FairExit).                                                          *)
(***************************************************************************)
EXTENDS Integers, Sequences, FiniteSets, TLC

(***************************************************************************)
(* Bounds of the model.                                                    *)
(***************************************************************************)
NSubs == 2        \* subscription_s objects a run may allocate
NSubsRace == 3    \* the same, in the runs that subscribe again after a destroy
NThreads == 2     \* threads of the process (callers and task executors)
MaxPublish == 2   \* facil_publish calls of a run
MaxDefer == 1     \* facil_message_defer calls of a run

(***************************************************************************)
(* FIOBJ values: byte strings, numbers and the invalid object.             *)
(***************************************************************************)
FIOBJ_INVALID == [t |-> "null", n |-> 0, s |-> <<>>]
Str(bytes) == [t |-> "str", n |-> 0, s |-> bytes]
Num(i) == [t |-> "num", n |-> i, s |-> <<>>]

RECURSIVE Digits(_)
Digits(i) == IF i < 10 THEN <<48 + i>> ELSE Digits(i \div 10) \o <<48 + (i % 10)>>

\* fiobj_obj2cstr: the bytes of a string, the decimal text of a number.
fiobj_obj2cstr(o) ==
  CASE o.t = "str" -> o.s
    [] o.t = "num" -> Digits(o.n)
    [] OTHER -> <<>>

\* The channel names and the filter used by the runs.
Ch42 == Str(<<99, 104, 46, 52, 50>>)          \* "ch.42"
ChOther == Str(<<111, 116, 104, 101, 114>>)   \* "other"
ChSeven == Str(<<55>>)                        \* "7"
PatCh == Str(<<99, 104, 46, 42>>)             \* "ch.*"
Filter7 == 7

(***************************************************************************)
(* facil_glob_match, as the loop of the source runs it.  pi and ci are the *)
(* positions of pat.bytes and ch.bytes (1-based), bp is back_pat (0 for    *)
(* NULL) and bs is back_str; the lengths are what is left after the        *)
(* positions.  A string object is followed by one NUL byte; a read past    *)
(* that byte leaves the object and ends the run as "oob".                  *)
(***************************************************************************)
PatAt(pat, i) == IF i <= Len(pat) THEN pat[i] ELSE 0

\* The span loop of a character class: do { ... } while ((a = *cls++) != ']').
\* cls is the position the C pointer cls holds, a the byte read last.
\* A span loop that leaves the bounds of a range in the order written.
RECURSIVE glob_class_unswapped(_, _, _, _, _)
glob_class_unswapped(pat, cls, a, c, match) ==
  IF cls > Len(pat) + 2 THEN [oob |-> TRUE, match |-> FALSE, cls |-> cls]
  ELSE
    LET range == PatAt(pat, cls) = 45 /\ PatAt(pat, cls + 1) # 93
        b0 == IF range THEN PatAt(pat, cls + 1) ELSE a
        cls1 == IF range THEN cls + 2 ELSE cls
        m1 == match \/ (a <= c /\ c <= b0)
        nexta == PatAt(pat, cls1)
    IN IF nexta = 93
         THEN [oob |-> cls1 > Len(pat) + 1, match |-> m1, cls |-> cls1 + 1]
         ELSE glob_class_unswapped(pat, cls1 + 1, nexta, c, m1)

RECURSIVE glob_class(_, _, _, _, _)
glob_class(pat, cls, a, c, match) ==
  IF cls > Len(pat) + 2 THEN [oob |-> TRUE, match |-> FALSE, cls |-> cls]
  ELSE
    LET range == PatAt(pat, cls) = 45 /\ PatAt(pat, cls + 1) # 93
        b0 == IF range THEN PatAt(pat, cls + 1) ELSE a
        lo == IF a > b0 THEN b0 ELSE a
        hi == IF a > b0 THEN a ELSE b0
        cls1 == IF range THEN cls + 2 ELSE cls
        m1 == match \/ (lo <= c /\ c <= hi)
        nexta == PatAt(pat, cls1)
    IN IF nexta = 93
         THEN [oob |-> cls1 > Len(pat) + 1, match |-> m1, cls |-> cls1 + 1]
         ELSE glob_class(pat, cls1 + 1, nexta, c, m1)

RECURSIVE glob_loop(_, _, _, _, _, _)
glob_loop(pat, ch, pi, ci, bp, bs) ==
  IF ci > Len(ch)
    THEN (IF pi = Len(pat) + 1 THEN "match" ELSE "nomatch")
  ELSE IF pi > Len(pat) + 1 THEN "oob"
  ELSE
    LET c == ch[ci]
        d == PatAt(pat, pi)
        backtrack == IF bp = 0 THEN "nomatch"
                     ELSE glob_loop(pat, ch, bp, bs + 1, bp, bs + 1)
    IN CASE d = 63 -> glob_loop(pat, ch, pi + 1, ci + 1, bp, bs)
         [] d = 42 -> IF pi + 1 = Len(pat) + 1 THEN "match"
                      ELSE glob_loop(pat, ch, pi + 1, ci, pi + 1, ci)
         [] d = 91 ->
              LET inverted == PatAt(pat, pi + 1) = 94
                  cls0 == pi + 1 + (IF inverted THEN 1 ELSE 0)
                  r == glob_class(pat, cls0 + 1, PatAt(pat, cls0), c, FALSE)
              IN IF r.oob THEN "oob"
                 ELSE IF r.match = inverted THEN backtrack
                 ELSE glob_loop(pat, ch, r.cls, ci + 1, bp, bs)
         [] d = 92 -> IF c = PatAt(pat, pi + 1)
                        THEN glob_loop(pat, ch, pi + 2, ci + 1, bp, bs)
                        ELSE backtrack
         [] OTHER -> IF c = d THEN glob_loop(pat, ch, pi + 1, ci + 1, bp, bs)
                     ELSE backtrack

\* A matcher whose trailing `*` stands for exactly one byte.
GlobRun_star_one(pattern, channel) ==
  LET pat == fiobj_obj2cstr(pattern)
      one == IF pat # <<>> /\ pat[Len(pat)] = 42
               THEN [pat EXCEPT ![Len(pat)] = 63] ELSE pat
  IN glob_loop(one, fiobj_obj2cstr(channel), 1, 1, 0, 1)

GlobRun(pattern, channel) ==
  glob_loop(fiobj_obj2cstr(pattern), fiobj_obj2cstr(channel), 1, 1, 0, 1)

facil_glob_match(pattern, channel) == GlobRun(pattern, channel) = "match"

(***************************************************************************)
(* One process at the granularity of its locks.                            *)
(***************************************************************************)
VARIABLES
  cfg,       \* what the run may do: threads, subscribe and publish arguments
  client,    \* cluster_data.client: 0 in the root, the link's uuid in a worker
  subs,      \* the subscription_s objects
  chans,     \* the channel_s / pattern_s objects
  coll,      \* postoffice.filters/.pubsub/.patterns: channels in table order
  collLock,  \* the lock of each collection
  msgs,      \* the facil_msg_internal_s objects
  tasks,     \* the deferred tasks waiting in the queue
  running,   \* the calls and tasks a thread is in the middle of
  engine,    \* per channel object: calls of the attached engine's hooks
  late,      \* an engine attached while the process runs, and its subscribe calls
  upstream,  \* frames written to the link to the root, in order
  defers,    \* facil_message_defer calls so far
  sched,     \* per message: the subscriptions a delivery was deferred for
  enqueued,  \* per message: these subscriptions, in the order of the defer calls
  crashed    \* the process died on a freed channel

pvars == <<cfg, client, subs, chans, coll, collLock, msgs, tasks, running,
           engine, late, upstream, defers, sched, enqueued, crashed>>

VARIABLES
  meta,      \* postoffice.meta.ary: the metadata producers, in order
  refused    \* the subscribe calls that failed: arguments, result, callbacks made

xvars == <<meta, refused>>

VARIABLES
  big_endian, \* the build: __BIG_ENDIAN__ is defined
  sent,       \* the frames written to a cluster link, in order
  wire,       \* their bytes the socket has not delivered yet
  reader,     \* the cluster_pr_s of the reading end
  handled,    \* what c->handler was called with, in order
  fate        \* the worker reading the link: closed link, hooks fired, signals

wvars == <<big_endian, sent, wire, reader, handled, fate>>

VARIABLES
  glob        \* a pattern, the inputs facil_glob_match is given, its answers

gvars == <<glob>>

VARIABLES
  links       \* the root's end of each cluster link: its cluster_pr_s and handler

rvars == <<links>>

VARIABLES
  forked,     \* a fork of the process: its phase and the locks the postoffice does not hold
  leaving     \* the exit of the process: where facil_cluster_at_exit is, the default engine

fvars == <<forked, leaving>>

MostSubs == IF NSubs > NSubsRace THEN NSubs ELSE NSubsRace
Subs == 1..MostSubs
Chans == 1..MostSubs
Msgs == 1..MaxPublish
Kinds == {"filters", "pubsub", "patterns"}

\* cluster_message_type_e
CLUSTER_MESSAGE_FORWARD == 0
CLUSTER_MESSAGE_JSON == 1
CLUSTER_MESSAGE_ROOT == 2
CLUSTER_MESSAGE_ROOT_JSON == 3
CLUSTER_MESSAGE_PUBSUB_SUB == 4
CLUSTER_MESSAGE_PUBSUB_UNSUB == 5
CLUSTER_MESSAGE_PATTERN_SUB == 6
CLUSTER_MESSAGE_PATTERN_UNSUB == 7
CLUSTER_MESSAGE_SHUTDOWN == 8
CLUSTER_MESSAGE_ERROR == 9
CLUSTER_MESSAGE_PING == 10

\* subscribe_args_s: filter, channel, match (TRUE for FACIL_MATCH_GLOB).
SubArgs(f, ch, m) == [filter |-> f, channel |-> ch, match |-> m]
\* facil_publish_args_s of a publish to FACIL_PUBSUB_PROCESS.
PubArgs(f, ch) == [filter |-> f, channel |-> ch]

NoSub == [st |-> "none", ref |-> 0, lock |-> FALSE, parent |-> 0,
          unsub |-> FALSE, on_unsubscribe |-> 0]
NoChan == [mem |-> "unused", id |-> FIOBJ_INVALID, parent |-> "pubsub",
           subscriptions |-> <<>>, lock |-> FALSE, match |-> FALSE]
NoMsg == [st |-> "none", ref |-> 0, filter |-> 0, channel |-> FIOBJ_INVALID,
          meta |-> <<>>, on_finish |-> <<>>]
NoCalls == [subscribe |-> 0, unsubscribe |-> 0]
\* An engine that is not in postoffice.engines and was never called.
NoEngine == [in |-> FALSE, pc |-> "out", got |-> {}, gone |-> {}, log |-> <<>>]
\* The arguments of a subscribe or unsubscribe hook: ch->id and match.
Hook(id, match) == [id |-> id, match |-> match]
\* A call of an engine's subscribe or unsubscribe hook.
Call(op, id, match) == [op |-> op, id |-> id, match |-> match]

\* An entry of `running`: where the thread is (pc) and its local variables.
Act(pc, s, m, c, k, todo) ==
  [pc |-> pc, s |-> s, m |-> m, c |-> c, k |-> k, todo |-> todo]
\* An entry of `tasks`: defer(fn, s, m); again: the task was put back once.
Task(fn, s, m, again) == [fn |-> fn, s |-> s, m |-> m, again |-> again]

SeqRemove(q, x) == SelectSeq(q, LAMBDA y : y # x)
Range(q) == {q[i] : i \in 1..Len(q)}

\* fio_hash_find(&collection->channels, key): the channel stored under key.
fio_hash_find(table, key) ==
  LET hit == {c \in Range(table) : chans[c].id = key}
  IN IF hit = {} THEN 0 ELSE CHOOSE c \in hit : TRUE

\* fio_hash_insert(&collection->channels, key, NULL): drop what key holds.
fio_hash_remove(table, key) == SelectSeq(table, LAMBDA c : chans[c].id # key)

ThreadFree == ~crashed /\ Cardinality(running) < cfg.threads

\* A cluster_pr_s as cluster_alloc leaves it: nothing read, nothing expected.
NoLink == [buffer |-> <<>>, exp_channel |-> 0, exp_msg |-> 0, type |-> 0,
           filter |-> 0, channel |-> <<>>, msg |-> <<>>, exited |-> FALSE]

\* No pattern is matched.
InitGlobIdle == glob = <<>>

\* No link is accepted by a root.
InitLinksIdle == links = <<>>

\* No fork is followed.
InitForkIdle == forked = <<>> /\ leaving = <<>>

\* A worker whose link to the root is open: no ON_PARENT_CRUSH hook fired, no
\* SIGINT sent to itself, the socket file not unlinked.
NoFate == [closed |-> FALSE, crush |-> 0, sigint |-> 0, unlinked |-> FALSE]

\* No link is read.
InitWireIdle ==
  /\ big_endian = FALSE
  /\ sent = <<>>
  /\ wire = <<>>
  /\ reader = NoLink
  /\ handled = <<>>
  /\ fate = NoFate

InitProcess(c) ==
  /\ cfg = c
  /\ client = c.client
  /\ subs = [s \in Subs |-> NoSub]
  /\ chans = [x \in Chans |-> NoChan]
  /\ coll = [k \in Kinds |-> <<>>]
  /\ collLock = [k \in Kinds |-> FALSE]
  /\ msgs = [m \in Msgs |-> NoMsg]
  /\ tasks = {}
  /\ running = {}
  /\ engine = [x \in Chans |-> NoCalls]
  /\ late = NoEngine
  /\ meta = <<>>
  /\ refused = <<>>
  /\ upstream = <<>>
  /\ defers = 0
  /\ sched = [m \in Msgs |-> {}]
  /\ enqueued = [m \in Msgs |-> <<>>]
  /\ crashed = FALSE

(***************************************************************************)
(* Engines and the root.                                                   *)
(***************************************************************************)
\* inform_root_about_channel(ch, match, add): the frame written, if any.
inform_root_about_channel(id, match, add) ==
  IF client = 0 \/ id = FIOBJ_INVALID THEN <<>>
  ELSE IF match
    THEN << [type |-> IF add THEN CLUSTER_MESSAGE_PATTERN_SUB
                              ELSE CLUSTER_MESSAGE_PATTERN_UNSUB,
             filter |-> 0, channel |-> fiobj_obj2cstr(id), match |-> TRUE] >>
    ELSE << [type |-> IF add THEN CLUSTER_MESSAGE_PUBSUB_SUB
                              ELSE CLUSTER_MESSAGE_PUBSUB_UNSUB,
             filter |-> 0, channel |-> fiobj_obj2cstr(id), match |-> FALSE] >>

\* pubsub_on_channel_create(ch, match): every engine's subscribe, then the root.
pubsub_on_channel_create(c, id, match) ==
  /\ engine' = [engine EXCEPT ![c].subscribe = @ + 1]
  /\ late' = IF late.in
               THEN [late EXCEPT !.got = @ \cup {Hook(id, match)},
                                 !.log = Append(@, Call("subscribe", id, match))]
               ELSE late
  /\ upstream' = upstream \o inform_root_about_channel(id, match, TRUE)

\* pubsub_on_channel_destroy(ch, match): every engine's unsubscribe, then the root.
pubsub_on_channel_destroy(c, id, match) ==
  /\ engine' = [engine EXCEPT ![c].unsubscribe = @ + 1]
  /\ late' = IF late.in
               THEN [late EXCEPT !.gone = @ \cup {Hook(id, match)},
                                 !.log = Append(@, Call("unsubscribe", id, match))]
               ELSE late
  /\ upstream' = upstream \o inform_root_about_channel(id, match, FALSE)

\* A subscription_free that frees whatever the count has come down to.
subscription_free_early(sv, s) ==
  [sv EXCEPT ![s].ref = @ - 1, ![s].st = "freed", ![s].on_unsubscribe = @ + 1]

(***************************************************************************)
(* Reference counting.                                                     *)
(***************************************************************************)
\* subscription_free(s): drop one reference; the last one calls on_unsubscribe.
subscription_free(sv, s) ==
  IF sv[s].ref - 1 # 0
    THEN [sv EXCEPT ![s].ref = @ - 1]
    ELSE [sv EXCEPT ![s].ref = 0, ![s].st = "freed",
                    ![s].on_unsubscribe = @ + 1]

\* A subscription_dup that takes no reference.
subscription_dup_none(sv, s) == sv

\* subscription_dup(s)
subscription_dup(sv, s) == [sv EXCEPT ![s].ref = @ + 1]

\* An internal_message_free that frees the nodes without calling on_finish.
internal_message_free_unfinished(mv, m) ==
  IF mv[m].ref - 1 # 0
    THEN [mv EXCEPT ![m].ref = @ - 1]
    ELSE [mv EXCEPT ![m].ref = 0, ![m].st = "freed"]

\* internal_message_free(msg): drop one reference; the last one walks
\* msg->meta, calls the on_finish of each node and frees the message.
internal_message_free(mv, m) ==
  IF mv[m].ref - 1 # 0
    THEN [mv EXCEPT ![m].ref = @ - 1]
    ELSE [mv EXCEPT ![m].ref = 0, ![m].st = "freed",
                    ![m].on_finish = @ \o mv[m].meta]

(***************************************************************************)
(* subscription_create                                                     *)
(***************************************************************************)
CollectionOf(args) ==
  IF args.filter # 0 THEN "filters"
  ELSE IF args.match THEN "patterns" ELSE "pubsub"

KeyOf(args) == IF args.filter # 0 THEN Num(args.filter) ELSE args.channel

FreshChan == CHOOSE x \in Chans :
               chans[x].mem = "unused" /\ \A y \in Chans : y < x => chans[y].mem # "unused"

\* The call up to the channel: the collection is locked, the channel found or
\* created (and announced), the subscription allocated with ref 1.
subscription_create_find(s, args) ==
  LET k == CollectionOf(args)
      key == KeyOf(args)
      found == fio_hash_find(coll[k], key)
      ch == IF found = 0 THEN FreshChan ELSE found
  IN /\ ThreadFree
     /\ s <= cfg.subs
     /\ subs[s].st = "none"
     /\ \A r \in Subs : r < s => subs[r].st # "none"
     /\ ~collLock[k]
     /\ collLock' = [collLock EXCEPT ![k] = TRUE]
     /\ IF found = 0
          THEN /\ chans' = [chans EXCEPT ![ch] =
                     [mem |-> "live", id |-> key, parent |-> k,
                      subscriptions |-> <<>>, lock |-> FALSE,
                      match |-> args.match]]
               /\ coll' = [coll EXCEPT ![k] = Append(@, ch)]
               /\ IF args.filter = 0
                    THEN pubsub_on_channel_create(ch, key, args.match)
                    ELSE UNCHANGED <<engine, late, upstream>>
          ELSE UNCHANGED <<chans, coll, engine, late, upstream>>
     /\ subs' = [subs EXCEPT ![s] = [NoSub EXCEPT !.st = "alloc", !.ref = 1,
                                                  !.parent = ch]]
     /\ running' = running \cup {Act("create_push", s, 0, ch, k, <<>>)}
     /\ UNCHANGED <<cfg, client, sched, enqueued, msgs, tasks, defers, crashed>>

\* The rest of the call: push under the channel's lock, unlock both, return s.
subscription_create_push(a) ==
  /\ ~crashed
  /\ a.pc = "create_push"
  /\ ~chans[a.c].lock
  /\ chans' = [chans EXCEPT ![a.c].subscriptions = Append(@, a.s)]
  /\ collLock' = [collLock EXCEPT ![a.k] = FALSE]
  /\ subs' = [subs EXCEPT ![a.s].st = "live"]
  /\ running' = running \ {a}
  /\ UNCHANGED <<cfg, client, sched, enqueued, coll, msgs, tasks, engine, late, upstream, defers, crashed>>

(***************************************************************************)
(* subscription_destroy and channel_destroy                                *)
(***************************************************************************)
\* subscription_destroy(s): spn_trylock(&s->parent->lock) failed, the call
\* defers itself.  `from` is the queued task being run, or {} for a direct call.
subscription_destroy_defer(s, from) ==
  /\ chans[subs[s].parent].lock
  /\ tasks' = (tasks \ from) \cup {Task("subscription_destroy", s, 0, TRUE)}
  /\ subs' = [subs EXCEPT ![s].unsub = TRUE]
  /\ UNCHANGED <<cfg, client, sched, enqueued, chans, coll, collLock, msgs, running, engine, late,
                 upstream, defers, crashed>>

\* subscription_destroy(s): the try-lock succeeded, the node is removed.
subscription_destroy_remove(s, from) ==
  LET c == subs[s].parent
  IN /\ ~chans[c].lock
     /\ chans' = [chans EXCEPT ![c].lock = TRUE,
                               ![c].subscriptions = SeqRemove(@, s)]
     /\ tasks' = tasks \ from
     /\ subs' = [subs EXCEPT ![s].unsub = TRUE]
     /\ running' = running \cup {Act("sd_unlock", s, 0, c, chans[c].parent, <<>>)}
     /\ UNCHANGED <<cfg, client, sched, enqueued, coll, collLock, msgs, engine, late, upstream,
                    defers, crashed>>

subscription_destroy(s, from) ==
  \/ subscription_destroy_defer(s, from)
  \/ subscription_destroy_remove(s, from)

\* facil_unsubscribe(subscription): called once for a handle subscribe returned.
facil_unsubscribe(s) ==
  /\ ThreadFree
  /\ subs[s].st = "live"
  /\ ~subs[s].unsub
  /\ subscription_destroy(s, {})

\* A thread takes a deferred subscription_destroy from the queue and runs it.
subscription_destroy_task(t) ==
  /\ ThreadFree
  /\ t \in tasks
  /\ t.fn = "subscription_destroy"
  /\ subscription_destroy(t.s, {t})

\* subscription_destroy that calls channel_destroy before it unlocks the
\* channel.
subscription_destroy_unlock_late(a) ==
  /\ ~crashed
  /\ a.pc = "sd_unlock"
  /\ IF chans[a.c].subscriptions = <<>>
       THEN /\ running' = (running \ {a}) \cup {[a EXCEPT !.pc = "cd_lock"]}
            /\ subs' = subs
            /\ chans' = chans
       ELSE /\ running' = running \ {a}
            /\ subs' = subscription_free(subs, a.s)
            /\ chans' = [chans EXCEPT ![a.c].lock = FALSE]
  /\ UNCHANGED <<cfg, client, sched, enqueued, coll, collLock, msgs, tasks, engine, late, upstream,
                 defers, crashed>>

\* subscription_destroy: the channel is unlocked; an empty channel goes to
\* channel_destroy, otherwise the subscription's reference is dropped.
subscription_destroy_unlock(a) ==
  /\ ~crashed
  /\ a.pc = "sd_unlock"
  /\ chans' = [chans EXCEPT ![a.c].lock = FALSE]
  /\ IF chans[a.c].subscriptions = <<>>
       THEN /\ running' = (running \ {a}) \cup {[a EXCEPT !.pc = "cd_lock"]}
            /\ subs' = subs
       ELSE /\ running' = running \ {a}
            /\ subs' = subscription_free(subs, a.s)
  /\ UNCHANGED <<cfg, client, sched, enqueued, coll, collLock, msgs, tasks, engine, late, upstream,
                 defers, crashed>>

\* channel_destroy(c) under the collection's lock: a channel with subscribers
\* is left alone, an empty one is dropped from the table under its id.  The
\* fields of a freed channel are read as they were left.
channel_destroy_lock(a) ==
  LET k == chans[a.c].parent
  IN /\ ~crashed
     /\ a.pc = "cd_lock"
     /\ ~collLock[k]
     /\ \/ /\ chans[a.c].subscriptions # <<>> \/ chans[a.c].mem = "freed"
           /\ running' = running \ {a}
           /\ subs' = subscription_free(subs, a.s)
           /\ coll' = coll
        \/ /\ chans[a.c].subscriptions = <<>>
           /\ coll' = [coll EXCEPT ![k] = fio_hash_remove(@, chans[a.c].id)]
           /\ running' = (running \ {a}) \cup {[a EXCEPT !.pc = "cd_notify"]}
           /\ subs' = subs
     /\ UNCHANGED <<cfg, client, sched, enqueued, chans, collLock, msgs, tasks, engine, late, upstream,
                    defers, crashed>>

\* channel_destroy(c) after the unlock: pubsub_on_channel_destroy, whatever
\* the collection of c.
channel_destroy_notify(a) ==
  /\ ~crashed
  /\ a.pc = "cd_notify"
  /\ pubsub_on_channel_destroy(a.c, chans[a.c].id,
        IF chans[a.c].parent = "patterns" THEN chans[a.c].match ELSE FALSE)
  /\ running' = (running \ {a}) \cup {[a EXCEPT !.pc = "cd_free"]}
  /\ UNCHANGED <<cfg, client, sched, enqueued, subs, chans, coll, collLock, msgs, tasks,
                 defers, crashed>>

\* channel_destroy(c): fio_free(c); then subscription_destroy's
\* subscription_free(s).
channel_destroy_free(a) ==
  /\ ~crashed
  /\ a.pc = "cd_free"
  /\ chans' = [chans EXCEPT ![a.c].mem = "freed"]
  /\ subs' = subscription_free(subs, a.s)
  /\ running' = running \ {a}
  /\ UNCHANGED <<cfg, client, sched, enqueued, coll, collLock, msgs, tasks, engine, late, upstream,
                 defers, crashed>>

\* channel_destroy(c) on a channel another thread has freed: the memory may
\* hold anything by now, and the thread dies on it (or spins for ever on what
\* it takes for a lock).
use_after_free(a) ==
  /\ ~crashed
  /\ a.pc \in {"cd_lock", "cd_notify", "cd_free"}
  /\ chans[a.c].mem = "freed"
  /\ crashed' = TRUE
  /\ UNCHANGED <<cfg, client, sched, enqueued, subs, chans, coll, collLock, msgs, tasks,
                 running, engine, late, upstream, defers>>

(***************************************************************************)
(* publish2process and publish2channel                                     *)
(***************************************************************************)
\* A dispatch that calls no producer.
call_meta_callbacks_none == <<>>

\* call_meta_callbacks(m, ..): every producer of a copy of postoffice.meta.ary
\* is called in order and its node put in front of m->meta.
call_meta_callbacks ==
  [i \in 1..Len(meta) |-> meta[Len(meta) + 1 - i]]

FreshMsg == CHOOSE m \in Msgs :
              msgs[m].st = "none" /\ \A y \in Msgs : y < m => msgs[y].st # "none"

Found(c) == IF c = 0 THEN <<>> ELSE <<c>>

\* A pattern loop that publishes to every pattern, matching or not.
MatchingPatterns_all(table, channel) == table

\* The patterns of the table whose match function accepts the channel.
MatchingPatterns(table, channel) ==
  SelectSeq(table, LAMBDA p : facil_glob_match(chans[p].id, channel))

\* A dispatch that looks a filter up among the pub/sub channels, under the
\* filter's decimal text.
publish2process_start_shared(args) ==
  LET m == FreshMsg
      key == IF args.filter # 0 THEN Str(fiobj_obj2cstr(Num(args.filter)))
             ELSE args.channel
  IN /\ ThreadFree
     /\ \E x \in Msgs : msgs[x].st = "none"
     /\ ~collLock["pubsub"]
     /\ collLock' = [collLock EXCEPT !["pubsub"] = TRUE]
     /\ msgs' = [msgs EXCEPT ![m] = [st |-> "live", ref |-> 1,
                    filter |-> args.filter, channel |-> args.channel,
                    meta |-> IF args.filter = 0 THEN call_meta_callbacks
                                                ELSE <<>>,
                    on_finish |-> <<>>]]
     /\ running' = running \cup
           {Act("p2c", 0, m, 0, "pubsub", Found(fio_hash_find(coll["pubsub"], key)))}
     /\ UNCHANGED <<cfg, client, sched, enqueued, subs, chans, coll, tasks, engine, late, upstream,
                    defers, crashed>>

\* facil_publish to FACIL_PUBSUB_PROCESS with string arguments: the envelope
\* is allocated with ref 1 and the first collection is locked and searched.
publish2process_start(args) ==
  LET m == FreshMsg
      k == IF args.filter # 0 THEN "filters" ELSE "pubsub"
      key == IF args.filter # 0 THEN Num(args.filter) ELSE args.channel
  IN /\ ThreadFree
     /\ \E x \in Msgs : msgs[x].st = "none"
     /\ ~collLock[k]
     /\ collLock' = [collLock EXCEPT ![k] = TRUE]
     /\ msgs' = [msgs EXCEPT ![m] = [st |-> "live", ref |-> 1,
                    filter |-> args.filter, channel |-> args.channel,
                    meta |-> IF args.filter = 0 THEN call_meta_callbacks
                                                ELSE <<>>,
                    on_finish |-> <<>>]]
     /\ running' = running \cup
           {Act("p2c", 0, m, 0, k, Found(fio_hash_find(coll[k], key)))}
     /\ UNCHANGED <<cfg, client, sched, enqueued, subs, chans, coll, tasks, engine, late, upstream,
                    defers, crashed>>

\* The tasks publish2channel defers for the subscriptions of a list.
DeliveryTasks(list, m) ==
  {Task("perform_subscription_callback", s, m, FALSE) : s \in Range(list)}

RECURSIVE DupAll(_, _)
DupAll(sv, list) ==
  IF list = <<>> THEN sv ELSE DupAll(subscription_dup(sv, Head(list)), Tail(list))

\* A publish2channel that calls the callback of the first subscription of the
\* list itself, under the locks it holds, instead of deferring a delivery.
publish2channel_inline(a) ==
  LET c == Head(a.todo)
      list == chans[c].subscriptions
  IN /\ ~crashed
     /\ a.pc = "p2c" /\ a.c = 0 /\ a.todo # <<>>
     /\ ~chans[c].lock
     /\ chans' = [chans EXCEPT ![c].lock = TRUE]
     /\ subs' = DupAll(subs, list)
     /\ msgs' = [msgs EXCEPT ![a.m].ref = @ + Len(list)]
     /\ sched' = [sched EXCEPT ![a.m] = @ \cup Range(list)]
     /\ enqueued' = [enqueued EXCEPT ![a.m] = @ \o list]
     /\ IF list = <<>>
          THEN running' = (running \ {a}) \cup {[a EXCEPT !.c = c]}
          ELSE running' = (running \ {a}) \cup
                            {Act("on_message", Head(list), a.m, c, a.k, a.todo)}
     /\ UNCHANGED <<cfg, client, coll, collLock, tasks, engine, late, upstream, defers,
                    crashed>>

\* A publish2channel that walks the list from its tail to its head.
publish2channel_backwards(a) ==
  LET c == Head(a.todo)
      list == chans[c].subscriptions
  IN /\ ~crashed
     /\ a.pc = "p2c" /\ a.c = 0 /\ a.todo # <<>>
     /\ ~chans[c].lock
     /\ chans' = [chans EXCEPT ![c].lock = TRUE]
     /\ subs' = DupAll(subs, list)
     /\ msgs' = [msgs EXCEPT ![a.m].ref = @ + Len(list)]
     /\ tasks' = tasks \cup DeliveryTasks(list, a.m)
     /\ sched' = [sched EXCEPT ![a.m] = @ \cup Range(list)]
     /\ enqueued' = [enqueued EXCEPT ![a.m] =
                       @ \o [i \in 1..Len(list) |-> list[Len(list) + 1 - i]]]
     /\ running' = (running \ {a}) \cup {[a EXCEPT !.c = c]}
     /\ UNCHANGED <<cfg, client, coll, collLock, engine, late, upstream, defers, crashed>>

\* publish2channel(ch, msg): lock the channel; for each subscription of the
\* list take a reference on it and on the message and defer the delivery.
publish2channel(a) ==
  LET c == Head(a.todo)
      list == chans[c].subscriptions
  IN /\ ~crashed
     /\ a.pc = "p2c" /\ a.c = 0 /\ a.todo # <<>>
     /\ ~chans[c].lock
     /\ chans' = [chans EXCEPT ![c].lock = TRUE]
     /\ subs' = DupAll(subs, list)
     /\ msgs' = [msgs EXCEPT ![a.m].ref = @ + Len(list)]
     /\ tasks' = tasks \cup DeliveryTasks(list, a.m)
     /\ sched' = [sched EXCEPT ![a.m] = @ \cup Range(list)]
     /\ enqueued' = [enqueued EXCEPT ![a.m] = @ \o list]
     /\ running' = (running \ {a}) \cup {[a EXCEPT !.c = c]}
     /\ UNCHANGED <<cfg, client, coll, collLock, engine, late, upstream, defers, crashed>>

\* publish2channel: spn_unlock(&ch->lock).
publish2channel_unlock(a) ==
  /\ ~crashed
  /\ a.pc = "p2c" /\ a.c # 0
  /\ chans' = [chans EXCEPT ![a.c].lock = FALSE]
  /\ running' = (running \ {a}) \cup {[a EXCEPT !.c = 0, !.todo = Tail(@)]}
  /\ UNCHANGED <<cfg, client, sched, enqueued, subs, coll, collLock, msgs, tasks, engine, late,
                 upstream, defers, crashed>>

\* publish2process: the collection is unlocked.  After filters the envelope's
\* own reference is dropped; after pubsub the patterns follow.
publish2process_unlock(a) ==
  /\ ~crashed
  /\ a.pc = "p2c" /\ a.c = 0 /\ a.todo = <<>>
  /\ collLock' = [collLock EXCEPT ![a.k] = FALSE]
  /\ IF a.k = "pubsub"
       THEN /\ running' = (running \ {a}) \cup {[a EXCEPT !.pc = "p2pat"]}
            /\ msgs' = msgs
       ELSE /\ running' = running \ {a}
            /\ msgs' = internal_message_free(msgs, a.m)
  /\ UNCHANGED <<cfg, client, sched, enqueued, subs, chans, coll, tasks, engine, late, upstream,
                 defers, crashed>>

\* publish2process: the patterns are locked and matched against the channel.
publish2process_patterns(a) ==
  /\ ~crashed
  /\ a.pc = "p2pat"
  /\ ~collLock["patterns"]
  /\ collLock' = [collLock EXCEPT !["patterns"] = TRUE]
  /\ running' = (running \ {a}) \cup
        {[a EXCEPT !.pc = "p2c", !.k = "patterns",
                   !.todo = MatchingPatterns(coll["patterns"], msgs[a.m].channel)]}
  /\ UNCHANGED <<cfg, client, sched, enqueued, subs, chans, coll, msgs, tasks, engine, late, upstream,
                 defers, crashed>>

(***************************************************************************)
(* perform_subscription_callback                                           *)
(***************************************************************************)
\* spn_trylock(&s->lock) failed: the task is deferred again.
perform_subscription_callback_defer(t) ==
  /\ ThreadFree
  /\ t \in tasks
  /\ t.fn = "perform_subscription_callback"
  /\ subs[t.s].lock
  /\ tasks' = (tasks \ {t}) \cup {[t EXCEPT !.again = TRUE]}
  /\ UNCHANGED <<cfg, client, sched, enqueued, subs, chans, coll, collLock, msgs, running,
                 engine, late, upstream, defers, crashed>>

\* A delivery that calls on_message whatever spn_trylock returned.
perform_subscription_callback_unlocked(t) ==
  /\ ThreadFree
  /\ t \in tasks
  /\ t.fn = "perform_subscription_callback"
  /\ subs' = [subs EXCEPT ![t.s].lock = TRUE]
  /\ tasks' = tasks \ {t}
  /\ running' = running \cup {Act("on_message", t.s, t.m, 0, "pubsub", <<>>)}
  /\ UNCHANGED <<cfg, client, sched, enqueued, chans, coll, collLock, msgs, engine, late, upstream,
                 defers, crashed>>

\* The lock is taken and s->on_message is called with the view.
perform_subscription_callback(t) ==
  /\ ThreadFree
  /\ t \in tasks
  /\ t.fn = "perform_subscription_callback"
  /\ ~subs[t.s].lock
  /\ subs' = [subs EXCEPT ![t.s].lock = TRUE]
  /\ tasks' = tasks \ {t}
  /\ running' = running \cup {Act("on_message", t.s, t.m, 0, "pubsub", <<>>)}
  /\ UNCHANGED <<cfg, client, sched, enqueued, chans, coll, collLock, msgs, engine, late, upstream,
                 defers, crashed>>

\* A return that drops both references although the view was deferred.
perform_subscription_callback_return_release(a, deferred) ==
  /\ ~crashed
  /\ a.pc = "on_message"
  /\ deferred => defers < MaxDefer
  /\ running' = running \ {a}
  /\ subs' = subscription_free([subs EXCEPT ![a.s].lock = FALSE], a.s)
  /\ msgs' = internal_message_free(msgs, a.m)
  /\ IF deferred
       THEN /\ tasks' = tasks \cup {Task("perform_subscription_callback", a.s, a.m, FALSE)}
            /\ defers' = defers + 1
       ELSE UNCHANGED <<tasks, defers>>
  /\ UNCHANGED <<cfg, client, sched, enqueued, chans, coll, collLock, engine, late, upstream, crashed>>

\* on_message returns, having called facil_message_defer (deferred) or not:
\* the lock is released; a deferred view is scheduled again, otherwise the
\* message's and the subscription's references are dropped.
perform_subscription_callback_return(a, deferred) ==
  /\ ~crashed
  /\ a.pc = "on_message"
  /\ deferred => defers < MaxDefer
  /\ running' = running \ {a}
  /\ IF deferred
       THEN /\ subs' = [subs EXCEPT ![a.s].lock = FALSE]
            /\ tasks' = tasks \cup {Task("perform_subscription_callback", a.s, a.m, FALSE)}
            /\ defers' = defers + 1
            /\ msgs' = msgs
       ELSE /\ subs' = subscription_free([subs EXCEPT ![a.s].lock = FALSE], a.s)
            /\ msgs' = internal_message_free(msgs, a.m)
            /\ UNCHANGED <<tasks, defers>>
  /\ UNCHANGED <<cfg, client, sched, enqueued, chans, coll, collLock, engine, late, upstream, crashed>>

(***************************************************************************)
(* The cluster: the root (process 0) and its workers, one socket between   *)
(* the root and each worker.  A frame is held as the fields                *)
(* cluster_on_data reads back from it.  Subscription A and subscription B  *)
(* listen to channel "news" with filter 0 and subscription F to filter 7,  *)
(* each in one process; a delivery is counted, and the view it will hand   *)
(* to the callback kept, when publish2channel defers its task.             *)
(***************************************************************************)
NWorkers == 2             \* worker processes of the cluster
MaxClusterPublish == 2    \* facil_publish calls of a cluster run

VARIABLES
  home,    \* the process each subscription was made in
  pub,     \* the facil_publish calls made so far
  sock,    \* per worker: the frames on their way up to the root and down from it
  disp,    \* per process and message: the type of each publish2process call
  fired,   \* per subscription and message: the deliveries deferred
  seen,    \* per subscription and message: the views of these deliveries
  epub,    \* per message: the calls of a custom engine's publish hook
  reactor  \* facil_is_running()

cvars == <<home, pub, sock, disp, fired, seen, epub, reactor>>
vars == <<pvars, xvars, cvars, wvars, gvars, rvars, fvars>>

Procs == 0..NWorkers
Workers == 1..NWorkers
CMsgs == 1..MaxClusterPublish
CSubs == {"A", "B", "F"}
News == Str(<<110, 101, 119, 115>>)    \* "news"
\* What each subscription was made with.
SubscribedTo(s) ==
  IF s = "F" THEN [filter |-> Filter7, channel |-> Num(Filter7)]
  ELSE [filter |-> 0, channel |-> News]

FACIL_PUBSUB_CLUSTER == 1
FACIL_PUBSUB_PROCESS == 2
FACIL_PUBSUB_SIBLINGS == 3
FACIL_PUBSUB_ROOT == 4
\* Any other value of args.engine is the address of a pubsub_engine_s.
CUSTOM_ENGINE == 5

NoPub == [st |-> "none", proc |-> 0, engine |-> 0, filter |-> 0,
          channel |-> FIOBJ_INVALID, json |-> FALSE]

\* The payload of the m-th publish: the text of m, or the number m.
Payload(m, json) == IF json THEN Num(m) ELSE Str(<<48 + m>>)
\* The publish a payload, as text, belongs to.
IdOf(text) == text[1] - 48

\* fiobj_obj2json: a string between quotes, a number as its decimal text.
fiobj_obj2json(o) ==
  CASE o.t = "str" -> Str(<<34>> \o o.s \o <<34>>)
    [] o.t = "num" -> Str(Digits(o.n))
    [] OTHER -> Str(<<110, 117, 108, 108>>)

\* The number a decimal text stands for.
RECURSIVE DigitsValue(_)
DigitsValue(text) ==
  IF text = <<>> THEN 0
  ELSE 10 * DigitsValue(SubSeq(text, 1, Len(text) - 1)) + (text[Len(text)] - 48)

\* fiobj_json2obj: the string between quotes, the number of a decimal text,
\* no object for any other text.
fiobj_json2obj(text) ==
  IF Len(text) >= 2 /\ text[1] = 34 /\ text[Len(text)] = 34
    THEN Str(SubSeq(text, 2, Len(text) - 1))
  ELSE IF text # <<>> /\ \A i \in 1..Len(text) : text[i] \in 48..57
    THEN Num(DigitsValue(text))
  ELSE FIOBJ_INVALID

facil_is_running == reactor

InitClusterIdle ==
  /\ home = [s \in CSubs |-> 0]
  /\ pub = [m \in CMsgs |-> NoPub]
  /\ sock = [w \in Workers |-> [up |-> <<>>, down |-> <<>>]]
  /\ disp = [p \in Procs |-> [m \in CMsgs |-> <<>>]]
  /\ fired = [s \in CSubs |-> [m \in CMsgs |-> 0]]
  /\ seen = [s \in CSubs |-> [m \in CMsgs |-> {}]]
  /\ epub = [m \in CMsgs |-> 0]
  /\ reactor = TRUE

\* What the functions below update.
ClusterState == [sock |-> sock, disp |-> disp, fired |-> fired, seen |-> seen]

\* The subscriptions of process p listed in the channel a dispatch looks up:
\* the number of the filter in postoffice.filters, the channel object it
\* was called with in postoffice.pubsub.
ClusterTargets(p, filter, channel) ==
  {s \in CSubs :
     /\ home[s] = p
     /\ IF filter # 0
          THEN SubscribedTo(s).filter # 0 /\ SubscribedTo(s).channel = Num(filter)
          ELSE SubscribedTo(s).filter = 0 /\ SubscribedTo(s).channel = channel}

\* The object the envelope holds for a field: for the JSON type the parsed
\* text, the text itself when it does not parse.
Enveloped(o, type) ==
  IF type = CLUSTER_MESSAGE_JSON /\ o # FIOBJ_INVALID
       /\ fiobj_json2obj(fiobj_obj2cstr(o)) # FIOBJ_INVALID
    THEN fiobj_json2obj(fiobj_obj2cstr(o))
    ELSE o

\* publish2process in process p: one dispatch of the given type, a delivery
\* deferred for every subscription of the channel found.
publish2process(st, p, filter, channel, msg, type) ==
  LET m == IdOf(fiobj_obj2cstr(msg))
      found == ClusterTargets(p, filter, channel)
      view == [filter |-> filter, channel |-> Enveloped(channel, type),
               msg |-> Enveloped(msg, type)]
  IN [st EXCEPT !.disp[p][m] = Append(@, type),
                !.fired = [s \in CSubs |->
                             IF s \in found THEN [@[s] EXCEPT ![m] = @ + 1]
                             ELSE @[s]],
                !.seen = [s \in CSubs |->
                            IF s \in found THEN [@[s] EXCEPT ![m] = @ \cup {view}]
                            ELSE @[s]]]

cluster_wrap_message(type, filter, ch_data, msg_data) ==
  [type |-> type, filter |-> filter, channel |-> ch_data, msg |-> msg_data]

\* What cluster_on_data hands to the handler: no object for an empty field.
Received(data) == IF data = <<>> THEN FIOBJ_INVALID ELSE Str(data)

\* cluster_server_sender: a copy to every client of the root.
cluster_server_sender(st, data) ==
  [st EXCEPT !.sock = [w \in Workers |-> [@[w] EXCEPT !.down = Append(@, data)]]]

\* cluster_client_sender in worker w: to the root.
cluster_client_sender(st, w, data) ==
  [st EXCEPT !.sock[w].up = Append(@, data)]

\* A send that keeps the messages of a filter in the process.
facil_send2cluster_local_filters(st, p, filter, ch, msg, type) ==
  IF ~facil_is_running \/ filter # 0 THEN st
  ELSE IF p > 0
    THEN cluster_client_sender(st, p,
           cluster_wrap_message(type, filter, fiobj_obj2cstr(ch), fiobj_obj2cstr(msg)))
    ELSE cluster_server_sender(st,
           cluster_wrap_message(type, filter, fiobj_obj2cstr(ch), fiobj_obj2cstr(msg)))

\* A send that the state of the reactor does not stop.
facil_send2cluster_always(st, p, filter, ch, msg, type) ==
  IF p > 0
    THEN cluster_client_sender(st, p,
           cluster_wrap_message(type, filter, fiobj_obj2cstr(ch), fiobj_obj2cstr(msg)))
    ELSE cluster_server_sender(st,
           cluster_wrap_message(type, filter, fiobj_obj2cstr(ch), fiobj_obj2cstr(msg)))

facil_send2cluster(st, p, filter, ch, msg, type) ==
  IF ~facil_is_running THEN st
  ELSE IF p > 0
    THEN cluster_client_sender(st, p,
           cluster_wrap_message(type, filter, fiobj_obj2cstr(ch), fiobj_obj2cstr(msg)))
    ELSE cluster_server_sender(st,
           cluster_wrap_message(type, filter, fiobj_obj2cstr(ch), fiobj_obj2cstr(msg)))

prepare_message(filter, ch, msg) ==
  IF (ch = FIOBJ_INVALID \/ ch.t = "str") /\ (msg = FIOBJ_INVALID \/ msg.t = "str")
    THEN [channel |-> ch, msg |-> msg, type |-> CLUSTER_MESSAGE_FORWARD,
          filter |-> filter]
    ELSE [channel |-> IF ch # FIOBJ_INVALID THEN fiobj_obj2json(ch) ELSE ch,
          msg |-> IF msg # FIOBJ_INVALID THEN fiobj_obj2json(msg) ELSE msg,
          type |-> CLUSTER_MESSAGE_JSON, filter |-> filter]

publish_msg2all(st, p, filter, ch, msg) ==
  LET m == prepare_message(filter, ch, msg)
  IN publish2process(facil_send2cluster(st, p, m.filter, m.channel, m.msg, m.type),
                     p, m.filter, m.channel, m.msg, m.type)

publish_msg2local(st, p, filter, ch, msg) ==
  LET m == prepare_message(filter, ch, msg)
  IN publish2process(st, p, m.filter, m.channel, m.msg, m.type)

publish_msg2cluster(st, p, filter, ch, msg) ==
  LET m == prepare_message(filter, ch, msg)
  IN facil_send2cluster(st, p, m.filter, m.channel, m.msg, m.type)

\* facil_parent_pid() == getpid() in the root only.
publish_msg2root(st, p, filter, ch, msg) ==
  IF p = 0 THEN publish_msg2local(st, p, filter, ch, msg)
  ELSE LET m == prepare_message(filter, ch, msg)
           type == IF m.type = CLUSTER_MESSAGE_JSON THEN CLUSTER_MESSAGE_ROOT_JSON
                   ELSE CLUSTER_MESSAGE_ROOT
       IN facil_send2cluster(st, p, m.filter, m.channel, m.msg, type)

\* A root that forwards what it was sent for itself to its clients as well.
cluster_server_handler_rebroadcast(st, pr) ==
  IF pr.type \in {CLUSTER_MESSAGE_FORWARD, CLUSTER_MESSAGE_JSON,
                  CLUSTER_MESSAGE_ROOT, CLUSTER_MESSAGE_ROOT_JSON}
    THEN publish2process(
           cluster_server_sender(st,
             cluster_wrap_message(pr.type, pr.filter, fiobj_obj2cstr(pr.channel),
                                  fiobj_obj2cstr(pr.msg))),
           0, pr.filter, pr.channel, pr.msg, pr.type)
    ELSE st

\* cluster_server_handler: the root's handling of a frame from a worker.
cluster_server_handler(st, pr) ==
  CASE pr.type \in {CLUSTER_MESSAGE_FORWARD, CLUSTER_MESSAGE_JSON} ->
         publish2process(
           cluster_server_sender(st,
             cluster_wrap_message(pr.type, pr.filter, fiobj_obj2cstr(pr.channel),
                                  fiobj_obj2cstr(pr.msg))),
           0, pr.filter, pr.channel, pr.msg, pr.type)
    [] pr.type \in {CLUSTER_MESSAGE_ROOT_JSON, CLUSTER_MESSAGE_ROOT} ->
         publish2process(st, 0, pr.filter, pr.channel, pr.msg,
                         IF pr.type = CLUSTER_MESSAGE_ROOT_JSON
                           THEN CLUSTER_MESSAGE_JSON ELSE pr.type)
    [] OTHER -> st

\* cluster_client_handler: worker w's handling of a frame from the root.
cluster_client_handler(st, w, pr) ==
  IF pr.type \in {CLUSTER_MESSAGE_FORWARD, CLUSTER_MESSAGE_JSON}
    THEN publish2process(st, w, pr.filter, pr.channel, pr.msg, pr.type)
    ELSE st

Handed(frame) ==
  [type |-> frame.type, filter |-> frame.filter,
   channel |-> Received(frame.channel), msg |-> Received(frame.msg)]

SetCluster(r) ==
  /\ sock' = r.sock
  /\ disp' = r.disp
  /\ fired' = r.fired
  /\ seen' = r.seen

\* An engine branch that hands a message with a filter to the engine too.
engine_publish_unchecked(calls, m, filter) == [calls EXCEPT ![m] = @ + 1]

\* The default branch of facil_publish: args.engine->publish, unless the
\* message has a filter.
engine_publish(calls, m, filter) ==
  IF filter # 0 THEN calls ELSE [calls EXCEPT ![m] = @ + 1]

\* facil_publish in process p through one of the four built-in engines or
\* through a custom engine.
facil_publish(p, eng, filter, ch, json) ==
  /\ \E x \in CMsgs : pub[x].st = "none"
  /\ LET m == CHOOSE x \in CMsgs :
                 pub[x].st = "none" /\ \A y \in CMsgs : pub[y].st = "none" => x <= y
         msg == Payload(m, json)
     IN /\ pub' = [pub EXCEPT ![m] = [st |-> "done", proc |-> p, engine |-> eng,
                                      filter |-> filter, channel |-> ch,
                                      json |-> json]]
        /\ SetCluster(
             CASE eng = FACIL_PUBSUB_CLUSTER -> publish_msg2all(ClusterState, p, filter, ch, msg)
               [] eng = FACIL_PUBSUB_PROCESS -> publish_msg2local(ClusterState, p, filter, ch, msg)
               [] eng = FACIL_PUBSUB_SIBLINGS -> publish_msg2cluster(ClusterState, p, filter, ch, msg)
               [] eng = FACIL_PUBSUB_ROOT -> publish_msg2root(ClusterState, p, filter, ch, msg)
               [] OTHER -> ClusterState)
        /\ epub' = IF eng \in {FACIL_PUBSUB_CLUSTER, FACIL_PUBSUB_PROCESS,
                                FACIL_PUBSUB_SIBLINGS, FACIL_PUBSUB_ROOT}
                     THEN epub ELSE engine_publish(epub, m, filter)
  /\ UNCHANGED <<home, reactor, pvars, xvars, wvars, gvars, rvars, fvars>>

\* cluster_on_data in the root, on the connection of worker w.
cluster_on_data_server(w) ==
  /\ sock[w].up # <<>>
  /\ SetCluster(cluster_server_handler(
                  [ClusterState EXCEPT !.sock[w].up = Tail(@)],
                  Handed(Head(sock[w].up))))
  /\ UNCHANGED <<home, pub, epub, reactor, pvars, xvars, wvars, gvars, rvars, fvars>>

\* cluster_on_data in worker w, on its connection to the root.
cluster_on_data_client(w) ==
  /\ sock[w].down # <<>>
  /\ SetCluster(cluster_client_handler(
                  [ClusterState EXCEPT !.sock[w].down = Tail(@)], w,
                  Handed(Head(sock[w].down))))
  /\ UNCHANGED <<home, pub, epub, reactor, pvars, xvars, wvars, gvars, rvars, fvars>>

\* A step of the process alone.
InProcess(A) == A /\ UNCHANGED <<xvars, cvars, wvars, gvars, rvars, fvars>>

(***************************************************************************)
(* The process.                                                            *)
(***************************************************************************)
Next ==
  \/ \E s \in Subs : \E args \in cfg.subArgs : InProcess(subscription_create_find(s, args))
  \/ \E a \in running : InProcess(subscription_create_push(a))
  \/ \E s \in Subs : InProcess(facil_unsubscribe(s))
  \/ \E t \in tasks : InProcess(subscription_destroy_task(t))
  \/ \E a \in running : InProcess(subscription_destroy_unlock(a))
  \/ \E a \in running : InProcess(channel_destroy_lock(a))
  \/ \E a \in running : InProcess(channel_destroy_notify(a))
  \/ \E a \in running : InProcess(channel_destroy_free(a))
  \/ \E a \in running : InProcess(use_after_free(a))
  \/ \E args \in cfg.pubArgs : InProcess(publish2process_start(args))
  \/ \E a \in running : InProcess(publish2channel(a))
  \/ \E a \in running : InProcess(publish2channel_unlock(a))
  \/ \E a \in running : InProcess(publish2process_unlock(a))
  \/ \E a \in running : InProcess(publish2process_patterns(a))
  \/ \E t \in tasks : InProcess(perform_subscription_callback_defer(t))
  \/ \E t \in tasks : InProcess(perform_subscription_callback(t))
  \/ \E a \in running : \E d \in BOOLEAN : InProcess(perform_subscription_callback_return(a, d))

\* A worker whose threads subscribe to "ch.42" and to filter 7, unsubscribe
\* and publish to both, concurrently.
ConcurrentRun ==
  [threads |-> NThreads, client |-> 1, subs |-> NSubs,
   subArgs |-> {SubArgs(0, Ch42, FALSE), SubArgs(Filter7, FIOBJ_INVALID, FALSE)},
   pubArgs |-> {PubArgs(0, Ch42), PubArgs(Filter7, FIOBJ_INVALID)}]

Init == InitProcess(ConcurrentRun) /\ InitClusterIdle /\ InitWireIdle /\ InitGlobIdle /\ InitLinksIdle /\ InitForkIdle

Spec == Init /\ [][Next]_vars

FairSpec == Spec /\ WF_vars(Next)

(***************************************************************************)
(* Properties of the process.                                              *)
(***************************************************************************)
InCallback(s) == {a \in running : a.pc = "on_message" /\ a.s = s}
DeliveriesQueued(s) ==
  {t \in tasks : t.fn = "perform_subscription_callback" /\ t.s = s}
Destroying(s) ==
  \/ \E t \in tasks : t.fn = "subscription_destroy" /\ t.s = s
  \/ \E a \in running :
       a.pc \in {"sd_unlock", "cd_lock", "cd_notify", "cd_free"} /\ a.s = s

\* C1: the callback of one subscription never runs in two deliveries at the
\* same time: at most one perform_subscription_callback per subscription is
\* between its try-lock and its unlock, and it holds the subscription's lock.
C1_CallbackNeverConcurrent ==
  \A s \in Subs :
    /\ Cardinality(InCallback(s)) <= 1
    /\ InCallback(s) # {} => subs[s].lock

\* A delivery is inside the callback of a subscription while another delivery
\* for the same subscription found the lock taken and deferred itself again.
C1_Witness ==
  \E s \in Subs :
    /\ InCallback(s) # {}
    /\ \E t \in DeliveriesQueued(s) : t.again

\* C2: once unsubscribe was called for a handle subscribe returned,
\* on_unsubscribe is eventually invoked, and it is never invoked twice.
C2_OnUnsubscribeEventuallyOnce ==
  \A s \in Subs :
    /\ subs[s].unsub ~> (subs[s].on_unsubscribe = 1)
    /\ [](subs[s].on_unsubscribe <= 1)

\* C3: once on_unsubscribe was invoked for a subscription no delivery for it
\* is queued or inside its callback: every delivery deferred for it finished
\* before.
C3_NoCallbackAfterOnUnsubscribe ==
  \A s \in Subs :
    subs[s].on_unsubscribe > 0 =>
      /\ DeliveriesQueued(s) = {}
      /\ InCallback(s) = {}

\* unsubscribe has run to its end for a subscription whose callback is still
\* running for a message in flight; on_unsubscribe was not called yet.
C3_Witness ==
  \E s \in Subs :
    /\ subs[s].unsub
    /\ ~Destroying(s)
    /\ InCallback(s) # {}
    /\ subs[s].on_unsubscribe = 0

\* C9: the engine hears one subscribe for every pub/sub or pattern channel
\* created, and one unsubscribe, never two, for every such channel destroyed.
C9_EngineNotifiedOncePerChannel ==
  \A c \in Chans :
    (chans[c].mem # "unused" /\ chans[c].parent # "filters") =>
      /\ engine[c].subscribe = 1
      /\ engine[c].unsubscribe <= 1
      /\ chans[c].mem = "freed" => engine[c].unsubscribe = 1

\* C10: creating and destroying a filter channel calls no engine hook and
\* writes no frame to the root (no string channel "7" exists in these runs).
C10_FiltersNeverNotify ==
  /\ \A c \in Chans :
       chans[c].parent = "filters" => engine[c] = NoCalls
  /\ \A i \in 1..Len(upstream) :
       upstream[i].channel # fiobj_obj2cstr(Num(Filter7))

(***************************************************************************)
(* The same process with a single thread: no lock is ever found taken, so  *)
(* no call defers itself and no channel is destroyed twice.                *)
(***************************************************************************)
NextSeq ==
  \/ \E s \in Subs : \E args \in cfg.subArgs : InProcess(subscription_create_find(s, args))
  \/ \E a \in running : InProcess(subscription_create_push(a))
  \/ \E s \in Subs : InProcess(facil_unsubscribe(s))
  \/ \E a \in running : InProcess(subscription_destroy_unlock(a))
  \/ \E a \in running : InProcess(channel_destroy_lock(a))
  \/ \E a \in running : InProcess(channel_destroy_notify(a))
  \/ \E a \in running : InProcess(channel_destroy_free(a))
  \/ \E args \in cfg.pubArgs : InProcess(publish2process_start(args))
  \/ \E a \in running : InProcess(publish2channel(a))
  \/ \E a \in running : InProcess(publish2channel_unlock(a))
  \/ \E a \in running : InProcess(publish2process_unlock(a))
  \/ \E a \in running : InProcess(publish2process_patterns(a))
  \/ \E t \in tasks : InProcess(perform_subscription_callback(t))
  \/ \E a \in running : \E d \in BOOLEAN : InProcess(perform_subscription_callback_return(a, d))

\* The root, one thread: channels "ch.42" and "7", pattern "ch.*", filter 7;
\* publishes to "ch.42", "other", "7" and filter 7.
SequentialRun ==
  [threads |-> 1, client |-> 0, subs |-> NSubs,
   subArgs |-> {SubArgs(0, Ch42, FALSE), SubArgs(0, ChSeven, FALSE),
                SubArgs(0, PatCh, TRUE), SubArgs(Filter7, FIOBJ_INVALID, FALSE)},
   pubArgs |-> {PubArgs(0, Ch42), PubArgs(0, ChOther), PubArgs(0, ChSeven),
                PubArgs(Filter7, FIOBJ_INVALID)}]

InitDispatch == InitProcess(SequentialRun) /\ InitClusterIdle /\ InitWireIdle /\ InitGlobIdle /\ InitLinksIdle /\ InitForkIdle

SpecDispatch == InitDispatch /\ [][NextSeq]_vars

\* The subscriptions listed in the channels of collection k whose id
\* satisfies P.
Listed(k, P(_)) ==
  {s \in Subs : \E c \in Range(coll[k]) :
                   P(chans[c].id) /\ s \in Range(chans[c].subscriptions)}

\* A dispatch that has searched its last collection and still holds its lock.
DispatchDone(a) ==
  a.pc = "p2c" /\ a.c = 0 /\ a.todo = <<>> /\ a.k # "pubsub"

\* C7: a dispatch with filter 0 on channel c defers a delivery, once, for
\* exactly the subscriptions listed in the pub/sub channel whose id is c or in
\* a pattern channel whose match function accepts c; a subscriber of "ch.*"
\* is scheduled for "ch.42" and not for "other".
C7_DispatchTargets ==
  \A a \in running :
    (DispatchDone(a) /\ msgs[a.m].filter = 0) =>
      LET c == msgs[a.m].channel
      IN /\ sched[a.m] =
              Listed("pubsub", LAMBDA id : id = c)
                \cup Listed("patterns", LAMBDA id : facil_glob_match(id, c))
         /\ msgs[a.m].ref = 1 + Cardinality(sched[a.m])
         /\ c = Ch42 => Listed("patterns", LAMBDA id : id = PatCh) \subseteq sched[a.m]
         /\ c = ChOther => Listed("patterns", LAMBDA id : id = PatCh) \cap sched[a.m] = {}

\* A dispatch on "ch.42" has scheduled a subscriber of "ch.42" and one of "ch.*".
C7_Witness ==
  \E a \in running :
    /\ DispatchDone(a)
    /\ msgs[a.m].channel = Ch42
    /\ Listed("pubsub", LAMBDA id : id = Ch42) # {}
    /\ Listed("patterns", LAMBDA id : id = PatCh) # {}
    /\ Cardinality(sched[a.m]) = 2

\* C8: a dispatch with a filter schedules exactly the subscriptions of that
\* filter and none of a pub/sub or pattern channel; a dispatch with filter 0
\* schedules no filter subscription.
C8_FilterNamespaceDisjoint ==
  \A a \in running :
    DispatchDone(a) =>
      IF msgs[a.m].filter # 0
        THEN /\ sched[a.m] = Listed("filters", LAMBDA id : id = Num(msgs[a.m].filter))
             /\ \A s \in sched[a.m] : chans[subs[s].parent].parent = "filters"
        ELSE \A s \in sched[a.m] : chans[subs[s].parent].parent # "filters"

\* With D on filter 7 and E on channel "7": the publish to "7" reached only
\* E and the publish to filter 7 has scheduled only D.
C8_Witness ==
  \E a \in running : \E d, e \in Subs : \E n \in Msgs :
    /\ DispatchDone(a)
    /\ msgs[a.m].filter = Filter7
    /\ d \in Listed("filters", LAMBDA id : id = Num(Filter7))
    /\ e \in Listed("pubsub", LAMBDA id : id = ChSeven)
    /\ sched[a.m] = {d}
    /\ msgs[n].filter = 0 /\ msgs[n].channel = ChSeven /\ sched[n] = {e}

(***************************************************************************)
(* The cluster: A and B are subscribed somewhere, every process publishes  *)
(* to "news", to "other" and to filter 7 through the four built-in engines *)
(* and through a custom engine, with string payloads and with payloads     *)
(* that travel as JSON.                                                    *)
(***************************************************************************)
PublishArgs ==
  {[filter |-> 0, channel |-> ch, json |-> j] : ch \in {News, ChOther}, j \in BOOLEAN}
    \cup {[filter |-> Filter7, channel |-> FIOBJ_INVALID, json |-> FALSE]}

NextCluster ==
  \/ \E p \in Procs : \E eng \in {FACIL_PUBSUB_CLUSTER, FACIL_PUBSUB_PROCESS,
                                  FACIL_PUBSUB_SIBLINGS, FACIL_PUBSUB_ROOT,
                                  CUSTOM_ENGINE} :
       \E a \in PublishArgs : facil_publish(p, eng, a.filter, a.channel, a.json)
  \/ \E w \in Workers : cluster_on_data_server(w)
  \/ \E w \in Workers : cluster_on_data_client(w)

InitCluster ==
  /\ InitProcess(SequentialRun)
  /\ home \in [CSubs -> Procs]
  /\ pub = [m \in CMsgs |-> NoPub]
  /\ sock = [w \in Workers |-> [up |-> <<>>, down |-> <<>>]]
  /\ disp = [p \in Procs |-> [m \in CMsgs |-> <<>>]]
  /\ fired = [s \in CSubs |-> [m \in CMsgs |-> 0]]
  /\ seen = [s \in CSubs |-> [m \in CMsgs |-> {}]]
  /\ epub = [m \in CMsgs |-> 0]
  /\ reactor = TRUE
  /\ InitWireIdle /\ InitGlobIdle /\ InitLinksIdle /\ InitForkIdle

SpecCluster == InitCluster /\ [][NextCluster]_vars

\* The frames of a link that carry the m-th publish.
FramesOf(link, m) == SelectSeq(link, LAMBDA f : IdOf(f.msg) = m)
\* No frame of the m-th publish is on its way.
Quiet(m) ==
  \A w \in Workers : FramesOf(sock[w].up, m) = <<>> /\ FramesOf(sock[w].down, m) = <<>>
\* The m-th publish was made through engine eng.
Published(m, eng) == pub[m].st = "done" /\ pub[m].engine = eng
\* The subscriptions to the channel of the m-th publish, in any process.
SubscribersOf(m) ==
  {s \in CSubs : SubscribedTo(s).filter = 0 /\ SubscribedTo(s).channel = pub[m].channel}

\* C4: a string message published to "news" with scope CLUSTER, in the root
\* or in a worker, fires every subscription to "news" in every process, the
\* publisher's included, exactly once: never twice, and once when every
\* frame of it was handled.
C4_ClusterPublishFiresOnce ==
  \A m \in CMsgs :
    (Published(m, FACIL_PUBSUB_CLUSTER) /\ pub[m].channel = News /\ ~pub[m].json) =>
      \A s \in SubscribersOf(m) :
        /\ fired[s][m] <= 1
        /\ Quiet(m) => fired[s][m] = 1

\* C5: a string message published to "news" with scope SIBLINGS in a worker
\* never fires a subscription of that worker, and fires the subscriptions of
\* the other processes once every frame of it was handled.
C5_SiblingsSkipPublisher ==
  \A m \in CMsgs :
    (Published(m, FACIL_PUBSUB_SIBLINGS) /\ pub[m].proc \in Workers
       /\ pub[m].channel = News /\ ~pub[m].json) =>
      \A s \in SubscribersOf(m) :
        /\ home[s] = pub[m].proc => fired[s][m] = 0
        /\ (home[s] # pub[m].proc /\ Quiet(m)) => fired[s][m] >= 1

\* The m-th publish was dispatched in the root alone, once, with the type
\* prepare_message gave it, and no frame was written for it.
LocalOnly(m) ==
  /\ disp[0][m] = << prepare_message(0, pub[m].channel, Payload(m, pub[m].json)).type >>
  /\ \A w \in Workers : disp[w][m] = <<>>
  /\ Quiet(m)
  /\ \A s \in CSubs : fired[s][m] <= (IF home[s] = 0 THEN 1 ELSE 0)

\* C6: a publish with scope ROOT made in a worker is never dispatched in a
\* worker and fires no worker's subscription; its only frame goes up the
\* publisher's link, as ROOT or ROOT_JSON; the root writes no frame for it
\* and dispatches it once, a ROOT_JSON frame as JSON.  Made in the root, it
\* does what a publish with scope PROCESS does there: one local dispatch.
C6_RootScopeReachesRootOnly ==
  \A m \in CMsgs :
    /\ (Published(m, FACIL_PUBSUB_ROOT) /\ pub[m].proc # 0) =>
         LET p == pub[m].proc
             up == FramesOf(sock[p].up, m)
         IN /\ \A w \in Workers :
                 /\ disp[w][m] = <<>>
                 /\ FramesOf(sock[w].down, m) = <<>>
                 /\ w # p => FramesOf(sock[w].up, m) = <<>>
            /\ \A s \in CSubs : fired[s][m] <= (IF home[s] = 0 THEN 1 ELSE 0)
            /\ IF up # <<>>
                 THEN /\ Len(up) = 1
                      /\ up[1].type = (IF pub[m].json THEN CLUSTER_MESSAGE_ROOT_JSON
                                       ELSE CLUSTER_MESSAGE_ROOT)
                      /\ disp[0][m] = <<>>
                 ELSE disp[0][m] = << IF pub[m].json THEN CLUSTER_MESSAGE_JSON
                                      ELSE CLUSTER_MESSAGE_ROOT >>
    /\ (Published(m, FACIL_PUBSUB_ROOT) /\ pub[m].proc = 0) => LocalOnly(m)
    /\ (Published(m, FACIL_PUBSUB_PROCESS) /\ pub[m].proc = 0) => LocalOnly(m)

\* A worker published to "news" with scope ROOT and the root handled the
\* frame: the root's subscription fired, the publisher's own did not.
C6_Witness ==
  \E m \in CMsgs : \E a, b \in CSubs :
    /\ Published(m, FACIL_PUBSUB_ROOT) /\ pub[m].proc # 0
    /\ pub[m].channel = News /\ ~pub[m].json
    /\ Quiet(m)
    /\ home[a] = 0 /\ fired[a][m] = 1
    /\ home[b] = pub[m].proc /\ fired[b][m] = 0

\* The m-th publish goes across the cluster: scope CLUSTER or SIBLINGS, or
\* scope ROOT in a worker.
AcrossCluster(m) ==
  \/ pub[m].engine \in {FACIL_PUBSUB_CLUSTER, FACIL_PUBSUB_SIBLINGS}
  \/ pub[m].engine = FACIL_PUBSUB_ROOT /\ pub[m].proc # 0
\* The processes a publish across the cluster is sent to.
Recipients(m) ==
  IF pub[m].engine = FACIL_PUBSUB_ROOT THEN {0}
  ELSE IF pub[m].proc = 0 THEN Workers
  ELSE {0} \cup Workers

Reached(m) == {s \in CSubs : fired[s][m] > 0}

\* C12: two publishes to the same string channel from the same process with
\* the same scope, one with a string payload (FORWARD) and one with a number
\* (JSON), reach the same subscriptions once their frames were handled;
\* every view handed out has the published channel, and on the JSON path
\* the published payload.
C12_JsonReachesWhatForwardReaches ==
  /\ \A m, n \in CMsgs :
       (/\ pub[m].st = "done" /\ pub[n].st = "done"
        /\ pub[m].filter = 0 /\ pub[n].filter = 0
        /\ pub[m].proc = pub[n].proc /\ pub[m].engine = pub[n].engine
        /\ pub[m].channel = pub[n].channel
        /\ ~pub[m].json /\ pub[n].json
        /\ Quiet(m) /\ Quiet(n)) => Reached(m) = Reached(n)
  /\ \A m \in CMsgs : \A s \in CSubs : \A v \in seen[s][m] :
       pub[m].filter = 0 =>
         /\ v.channel = pub[m].channel
         /\ pub[m].json => v.msg = Payload(m, TRUE)

\* C16: a publish through a custom engine with filter 0 calls the engine's
\* publish hook exactly once and is dispatched in no process, written to no
\* link and handed to no subscription; with a filter it is rejected: the
\* hook is not called, no frame is written, no subscription is scheduled.
\* The built-in scopes never call the hook.
C16_EnginePublishOnly ==
  \A m \in CMsgs :
    /\ Published(m, CUSTOM_ENGINE) =>
         /\ epub[m] = (IF pub[m].filter = 0 THEN 1 ELSE 0)
         /\ \A q \in Procs : disp[q][m] = <<>>
         /\ Quiet(m)
         /\ \A s \in CSubs : fired[s][m] = 0
    /\ (pub[m].st = "done" /\ pub[m].engine # CUSTOM_ENGINE) => epub[m] = 0

\* "news" was published through a custom engine from the process of a
\* subscription to "news", and filter 7 from the process of its
\* subscription: one call of the hook, none for the filter, nothing fired.
C16_Witness ==
  \E m, n \in CMsgs :
    /\ Published(m, CUSTOM_ENGINE) /\ pub[m].filter = 0 /\ pub[m].channel = News
    /\ home["A"] = pub[m].proc
    /\ epub[m] = 1 /\ fired["A"][m] = 0
    /\ Published(n, CUSTOM_ENGINE) /\ pub[n].filter = Filter7
    /\ home["F"] = pub[n].proc
    /\ epub[n] = 0 /\ fired["F"][n] = 0

(***************************************************************************)
(* The same cluster while the reactor is not running: frames are neither   *)
(* sent nor handled, the processes only publish.                           *)
(***************************************************************************)
NextInactive ==
  \E p \in Procs : \E eng \in {FACIL_PUBSUB_CLUSTER, FACIL_PUBSUB_PROCESS,
                               FACIL_PUBSUB_SIBLINGS, FACIL_PUBSUB_ROOT,
                               CUSTOM_ENGINE} :
    \E a \in PublishArgs : facil_publish(p, eng, a.filter, a.channel, a.json)

InitInactive ==
  /\ InitProcess(SequentialRun)
  /\ home \in [CSubs -> Procs]
  /\ pub = [m \in CMsgs |-> NoPub]
  /\ sock = [w \in Workers |-> [up |-> <<>>, down |-> <<>>]]
  /\ disp = [p \in Procs |-> [m \in CMsgs |-> <<>>]]
  /\ fired = [s \in CSubs |-> [m \in CMsgs |-> 0]]
  /\ seen = [s \in CSubs |-> [m \in CMsgs |-> {}]]
  /\ epub = [m \in CMsgs |-> 0]
  /\ reactor = FALSE
  /\ InitWireIdle /\ InitGlobIdle /\ InitLinksIdle /\ InitForkIdle

SpecInactive == InitInactive /\ [][NextInactive]_vars

\* C17 (as claimed): while the reactor is not running a publish across the
\* cluster is dropped: no frame is written and no subscription is scheduled.
C17_InactivePublishDropped ==
  \A m \in CMsgs :
    (pub[m].st = "done" /\ AcrossCluster(m)) =>
      /\ Quiet(m)
      /\ \A s \in CSubs : fired[s][m] = 0

\* C17 (amended): while the reactor is not running no frame of a publish
\* across the cluster is written to any link and no subscription of another
\* process is scheduled; scope SIBLINGS, and scope ROOT in a worker,
\* schedule nothing at all, scope CLUSTER still dispatches the message once
\* in the publishing process.
C17_InactivePublishStaysLocal ==
  \A m \in CMsgs :
    (pub[m].st = "done" /\ AcrossCluster(m)) =>
      /\ \A w \in Workers : sock[w].up = <<>> /\ sock[w].down = <<>>
      /\ \A q \in Procs \ {pub[m].proc} : disp[q][m] = <<>>
      /\ \A s \in CSubs : home[s] # pub[m].proc => fired[s][m] = 0
      /\ IF pub[m].engine = FACIL_PUBSUB_CLUSTER
           THEN Len(disp[pub[m].proc][m]) = 1
           ELSE /\ disp[pub[m].proc][m] = <<>>
                /\ \A s \in CSubs : fired[s][m] = 0

\* With the reactor stopped a process published "news" with scope CLUSTER:
\* its own subscription fired, the subscription of another process did not.
C17_Witness ==
  \E m \in CMsgs :
    /\ ~reactor
    /\ Published(m, FACIL_PUBSUB_CLUSTER) /\ pub[m].channel = News /\ ~pub[m].json
    /\ home["A"] = pub[m].proc /\ fired["A"][m] = 1
    /\ home["B"] # pub[m].proc /\ fired["B"][m] = 0

(***************************************************************************)
(* Callbacks and the deferred queue.                                       *)
(***************************************************************************)
\* The threads that hold the lock of collection k: inside subscribe between
\* the lookup and the push, inside publish2process while it searches k.
CollectionHolders(k) ==
  {b \in running : b.pc \in {"create_push", "p2c"} /\ b.k = k}
\* The threads that hold the lock of channel c: inside subscription_destroy
\* after the removal, inside publish2channel.
ChannelHolders(c) ==
  {b \in running : b.pc \in {"sd_unlock", "p2c"} /\ b.c = c}
\* The deliveries of subscription s and message m, queued or running.
Deliveries(s, m) ==
  {t \in tasks : t.fn = "perform_subscription_callback" /\ t.s = s /\ t.m = m}
    \cup {a \in running : a.pc = "on_message" /\ a.s = s /\ a.m = m}

\* C13: a callback starts only when a thread takes its delivery from the
\* deferred queue, never inside publish; the thread takes no collection or
\* channel lock on the way, and every collection or channel lock that is
\* taken is held by a thread inside subscribe, unsubscribe or publish, none
\* by a thread inside a callback.
C13_CallbacksOnlyFromQueue ==
  [][/\ \A a \in running' \ running :
          a.pc = "on_message" =>
            /\ \E t \in tasks \ tasks' :
                  t.fn = "perform_subscription_callback" /\ t.s = a.s /\ t.m = a.m
            /\ collLock' = collLock
            /\ \A c \in Chans : chans'[c].lock = chans[c].lock
     /\ \A k \in Kinds : collLock'[k] => CollectionHolders(k)' # {}
     /\ \A c \in Chans :
          (chans'[c].lock /\ chans'[c].mem = "live") => ChannelHolders(c)' # {}
    ]_vars

\* A callback is running while another thread is inside publish2process
\* with a collection locked.
C13_Witness ==
  \E a, b \in running :
    /\ a.pc = "on_message"
    /\ b.pc = "p2c" /\ collLock[b.k]

\* C15: when on_message returns after facil_message_defer, the lock of the
\* subscription is free, the same delivery is in the queue again and neither
\* the subscription's nor the message's reference was dropped; when it
\* returns without, the delivery is gone and both references are dropped.
\* As long as a delivery is queued or running, its subscription and its
\* message are not freed.
C15_DeferredDeliveryRunsAgain ==
  [][/\ \A a \in running \ running' :
          a.pc = "on_message" =>
            IF defers' = defers + 1
              THEN /\ ~subs'[a.s].lock
                   /\ Task("perform_subscription_callback", a.s, a.m, FALSE) \in tasks'
                   /\ subs'[a.s].ref = subs[a.s].ref
                   /\ msgs'[a.m].ref = msgs[a.m].ref
              ELSE /\ Deliveries(a.s, a.m)' = {}
                   /\ subs'[a.s].ref = subs[a.s].ref - 1
                   /\ msgs'[a.m].ref = msgs[a.m].ref - 1
     /\ \A s \in Subs : \A m \in Msgs :
          Deliveries(s, m)' # {} =>
            /\ subs'[s].st = "live" /\ subs'[s].ref >= 1
            /\ msgs'[m].st = "live" /\ msgs'[m].ref >= 1
    ]_vars

\* The only delivery of the only message was deferred by its callback and
\* the callback is running for it again.
C15_Witness ==
  \E a \in running :
    /\ a.pc = "on_message"
    /\ defers = 1
    /\ sched[a.m] = {a.s}
    /\ \A m \in Msgs \ {a.m} : msgs[m].st = "none"


(***************************************************************************)
(* subscription_create with arguments it refuses.                          *)
(***************************************************************************)
MaxRefuse == 1

\* subscribe_args_s as the caller fills it: on_message and on_unsubscribe say
\* whether the callback is supplied, udata1 and udata2 are the user data.
CreateArgs ==
  [on_message : BOOLEAN, on_unsubscribe : BOOLEAN,
   target : {SubArgs(0, FIOBJ_INVALID, FALSE), SubArgs(0, Ch42, FALSE),
             SubArgs(Filter7, FIOBJ_INVALID, FALSE)},
   udata1 : {1, 2}, udata2 : {3}]

\* !args.on_message || (!args.channel && !args.filter)
Refused(args) ==
  \/ ~args.on_message
  \/ args.target.channel = FIOBJ_INVALID /\ args.target.filter = 0

\* A refusal that forgets on_unsubscribe.
subscription_create_refused_silent(args) == <<>>

\* if (args.on_unsubscribe) args.on_unsubscribe(args.udata1, args.udata2):
\* the calls made.
subscription_create_refused(args) ==
  IF args.on_unsubscribe THEN << <<args.udata1, args.udata2>> >> ELSE <<>>

\* subscription_create(args) returning NULL (0) at once.
subscription_create_refuse(args) ==
  /\ ThreadFree
  /\ Len(refused) < MaxRefuse
  /\ Refused(args)
  /\ refused' = Append(refused, [args |-> args, ret |-> 0,
                                 called |-> subscription_create_refused(args)])
  /\ UNCHANGED <<pvars, meta, cvars, wvars, gvars, rvars, fvars>>

NextRefuse ==
  \/ NextSeq
  \/ \E args \in CreateArgs : subscription_create_refuse(args)

\* The root, one thread, subscribing to "ch.42" and to filter 7 and
\* publishing to "ch.42", between subscribe calls that are refused.
RefusingRun ==
  [threads |-> 1, client |-> 0, subs |-> NSubs,
   subArgs |-> {SubArgs(0, Ch42, FALSE), SubArgs(Filter7, FIOBJ_INVALID, FALSE)},
   pubArgs |-> {PubArgs(0, Ch42)}]

InitRefuse == InitProcess(RefusingRun) /\ InitClusterIdle /\ InitWireIdle /\ InitGlobIdle /\ InitLinksIdle /\ InitForkIdle

SpecRefuse == InitRefuse /\ [][NextRefuse]_vars

\* C14: a subscribe call without on_message, or with neither a filter nor a
\* channel, returns NULL, has called the supplied on_unsubscribe exactly once
\* with the supplied udata1 and udata2 (and nothing when none was supplied),
\* and changes no collection, channel, subscription, engine call, frame to
\* the root or queued task; no other call returns NULL.
C14_RefusedSubscribeTouchesNothing ==
  [][ refused' # refused =>
        /\ Len(refused') = Len(refused) + 1
        /\ LET r == refused'[Len(refused')]
           IN /\ SubSeq(refused', 1, Len(refused)) = refused
              /\ Refused(r.args)
              /\ r.ret = 0
              /\ r.called = IF r.args.on_unsubscribe
                              THEN << <<r.args.udata1, r.args.udata2>> >>
                              ELSE <<>>
        /\ UNCHANGED <<coll, collLock, chans, subs, engine, late, upstream,
                       tasks, running>> ]_vars

\* A refused call with on_unsubscribe, made while "ch.42" has a subscriber.
C14_Witness ==
  /\ coll["pubsub"] # <<>>
  /\ \E i \in 1..Len(refused) :
       /\ refused[i].args.on_unsubscribe
       /\ refused[i].args.udata1 = 2
       /\ refused[i].called = << <<2, 3>> >>

(***************************************************************************)
(* facil_pubsub_attach, facil_pubsub_detach, facil_pubsub_is_attached.     *)
(***************************************************************************)
\* A replay that forgets the patterns.
facil_pubsub_attach_replay_pubsub(k) ==
  IF k = "pubsub" THEN {Hook(chans[c].id, FALSE) : c \in Range(coll[k])} ELSE {}

\* The loop over a collection of facil_pubsub_attach: engine->subscribe(engine,
\* ch->id, NULL) for a pub/sub channel, (.., ch->id, match) for a pattern.
facil_pubsub_attach_replay(k) ==
  {Hook(chans[c].id, IF k = "patterns" THEN chans[c].match ELSE FALSE) :
     c \in Range(coll[k])}

\* facil_pubsub_attach(engine) up to the replay: the engine is put into
\* postoffice.engines under its lock.  `got` and `gone` count from here.
facil_pubsub_attach ==
  /\ ThreadFree
  /\ \A a \in running : a.pc \notin {"attach_pubsub", "attach_patterns"}
  /\ late' = [in |-> TRUE, pc |-> "attaching", got |-> {}, gone |-> {}, log |-> <<>>]
  /\ running' = running \cup {Act("attach_pubsub", 0, 0, 0, "pubsub", <<>>)}
  /\ UNCHANGED <<cfg, client, subs, chans, coll, collLock, msgs, tasks, engine,
                 upstream, defers, sched, enqueued, crashed, xvars, cvars, wvars, gvars, rvars, fvars>>

\* The replay of the pub/sub channels, under postoffice.pubsub.lock.
facil_pubsub_attach_pubsub(a) ==
  /\ ~crashed
  /\ a.pc = "attach_pubsub"
  /\ ~collLock["pubsub"]
  /\ late' = [late EXCEPT !.got = @ \cup facil_pubsub_attach_replay("pubsub")]
  /\ running' = (running \ {a}) \cup {[a EXCEPT !.pc = "attach_patterns", !.k = "patterns"]}
  /\ UNCHANGED <<cfg, client, subs, chans, coll, collLock, msgs, tasks, engine,
                 upstream, defers, sched, enqueued, crashed, xvars, cvars, wvars, gvars, rvars, fvars>>

\* The replay of the patterns, under postoffice.patterns.lock, and the return.
\* An engine detached meanwhile stays "detached".
facil_pubsub_attach_patterns(a) ==
  /\ ~crashed
  /\ a.pc = "attach_patterns"
  /\ ~collLock["patterns"]
  /\ late' = [late EXCEPT !.got = @ \cup facil_pubsub_attach_replay("patterns"),
                          !.pc = IF @ = "attaching" THEN "attached" ELSE @]
  /\ running' = running \ {a}
  /\ UNCHANGED <<cfg, client, subs, chans, coll, collLock, msgs, tasks, engine,
                 upstream, defers, sched, enqueued, crashed, xvars, cvars, wvars, gvars, rvars, fvars>>

\* facil_pubsub_detach(engine): the engine's entry is emptied.
facil_pubsub_detach ==
  /\ ~crashed
  /\ late.in
  /\ late' = [late EXCEPT !.in = FALSE, !.pc = "detached"]
  /\ UNCHANGED <<cfg, client, subs, chans, coll, collLock, msgs, tasks, running,
                 engine, upstream, defers, sched, enqueued, crashed, xvars, cvars, wvars, gvars, rvars, fvars>>

\* facil_pubsub_is_attached(engine)
facil_pubsub_is_attached == late.in

NextAttach ==
  \/ \E s \in Subs : \E args \in cfg.subArgs : InProcess(subscription_create_find(s, args))
  \/ \E a \in running : InProcess(subscription_create_push(a))
  \/ \E s \in Subs : InProcess(facil_unsubscribe(s))
  \/ \E t \in tasks : InProcess(subscription_destroy_task(t))
  \/ \E a \in running : InProcess(subscription_destroy_unlock(a))
  \/ \E a \in running : InProcess(channel_destroy_lock(a))
  \/ \E a \in running : InProcess(channel_destroy_notify(a))
  \/ \E a \in running : InProcess(channel_destroy_free(a))
  \/ \E a \in running : InProcess(use_after_free(a))
  \/ facil_pubsub_attach
  \/ \E a \in running : facil_pubsub_attach_pubsub(a)
  \/ \E a \in running : facil_pubsub_attach_patterns(a)
  \/ facil_pubsub_detach

\* A worker whose threads subscribe to "ch.42" and to the pattern "ch.*" and
\* unsubscribe while an engine is attached and detached.
AttachingRun ==
  [threads |-> NThreads, client |-> 1, subs |-> NSubs,
   subArgs |-> {SubArgs(0, Ch42, FALSE), SubArgs(0, PatCh, TRUE)},
   pubArgs |-> {}]

InitAttach == InitProcess(AttachingRun) /\ InitClusterIdle /\ InitWireIdle /\ InitGlobIdle /\ InitLinksIdle /\ InitForkIdle

SpecAttach == InitAttach /\ [][NextAttach]_vars

\* C18: once facil_pubsub_attach has returned and until the engine is
\* detached, the engine has been called with subscribe(id, NULL) for every
\* channel of the pub/sub collection and with subscribe(id, match) for every
\* channel of the pattern collection, whatever the other threads created or
\* destroyed meanwhile, and facil_pubsub_is_attached answers true.
C18_AttachReplaysEveryChannel ==
  late.pc = "attached" =>
    /\ facil_pubsub_is_attached
    /\ \A c \in Range(coll["pubsub"]) : Hook(chans[c].id, FALSE) \in late.got
    /\ \A c \in Range(coll["patterns"]) :
         chans[c].match /\ Hook(chans[c].id, TRUE) \in late.got

\* The attach has returned with "ch.42" in the pub/sub collection, and the
\* pattern the engine was told of was destroyed since the attach began.
C18_Witness ==
  /\ late.pc = "attached"
  /\ coll["pubsub"] # <<>> /\ coll["patterns"] = <<>>
  /\ late.got = {Hook(Ch42, FALSE), Hook(PatCh, TRUE)}
  /\ late.gone = {Hook(PatCh, TRUE)}

(***************************************************************************)
(* facil_message_metadata_set and the producers called by a dispatch.      *)
(***************************************************************************)
\* The metadata callbacks the application may register.
Producers == {1, 2}

\* facil_message_metadata_set(callback, enable): the callback is taken out of
\* postoffice.meta.ary and, to enable it, pushed at its end.
facil_message_metadata_set(callback, enable) ==
  /\ ThreadFree
  /\ meta' = SeqRemove(meta, callback) \o (IF enable THEN <<callback>> ELSE <<>>)
  /\ UNCHANGED <<pvars, refused, cvars, wvars, gvars, rvars, fvars>>

NextMeta ==
  \/ NextSeq
  \/ \E callback \in Producers : \E enable \in BOOLEAN :
       facil_message_metadata_set(callback, enable)

\* The root, one thread, subscribing and publishing to "ch.42" and to filter 7
\* while producers are registered and removed.
MetaRun ==
  [threads |-> 1, client |-> 0, subs |-> NSubs,
   subArgs |-> {SubArgs(0, Ch42, FALSE), SubArgs(Filter7, FIOBJ_INVALID, FALSE)},
   pubArgs |-> {PubArgs(0, Ch42), PubArgs(Filter7, FIOBJ_INVALID)}]

InitMeta == InitProcess(MetaRun) /\ InitClusterIdle /\ InitWireIdle /\ InitGlobIdle /\ InitLinksIdle /\ InitForkIdle

SpecMeta == InitMeta /\ [][NextMeta]_vars

\* The calls of producer p recorded in the message's metadata list.
MetaCalls(list, p) == Cardinality({i \in 1..Len(list) : list[i] = p})

\* C19: the step that starts a dispatch with filter 0 calls every producer
\* registered at that time exactly once and no other, with no delivery of the
\* message deferred yet; a dispatch with a filter calls none; no producer is
\* called for the message later.
C19_ProducersCalledOnceBeforeDelivery ==
  [][ \A m \in Msgs :
        /\ (msgs[m].st = "none" /\ msgs'[m].st = "live") =>
             /\ sched'[m] = {}
             /\ \A t \in tasks' : t.m # m
             /\ \A p \in Producers :
                  MetaCalls(msgs'[m].meta, p) =
                    IF msgs'[m].filter = 0 /\ p \in Range(meta) THEN 1 ELSE 0
        /\ msgs[m].st # "none" => msgs'[m].meta = msgs[m].meta ]_vars

\* Both producers are registered; a message to "ch.42" carries the nodes of
\* both and its delivery is queued, a message to filter 7 carries none.
C19_Witness ==
  /\ Len(meta) = 2
  /\ \E m, n \in Msgs :
       /\ msgs[m].st = "live" /\ msgs[m].filter = 0
       /\ Len(msgs[m].meta) = 2 /\ sched[m] # {}
       /\ msgs[n].st # "none" /\ msgs[n].filter # 0 /\ msgs[n].meta = <<>>

(***************************************************************************)
(* The frames on a cluster link: cluster_wrap_message writes them,         *)
(* cluster_on_data reads them back from whatever each sock_read returns.   *)
(* A 32 bit word is written as the int32 that has its bits, a byte as      *)
(* 0..255, a byte string as a sequence; an absent string is the empty one. *)
(***************************************************************************)
MaxFrames == 2
CLUSTER_READ_BUFFER == 16384

\* The word b3 b2 b1 b0, b3 the most significant byte.
WordOf(b3, b2, b1, b0) ==
  IF b3 >= 128
    THEN -((255 - b3) * 16777216 + (255 - b2) * 65536 + (255 - b1) * 256
           + (255 - b0)) - 1
    ELSE b3 * 16777216 + b2 * 65536 + b1 * 256 + b0

\* The bytes of a word, the most significant first.
BytesOf(w) ==
  LET u == IF w < 0 THEN -(w + 1) ELSE w
      b == << u \div 16777216, (u \div 65536) % 256, (u \div 256) % 256, u % 256 >>
  IN IF w < 0 THEN [k \in 1..4 |-> 255 - b[k]] ELSE b

\* uint32_t comparison w >= limit, for a limit below 2^31.
AtLeast(w, limit) == w < 0 \/ w >= limit

\* A reader that takes the first byte for the most significant in every build.
cluster_str2uint32_fixed(str, at) ==
  WordOf(str[at + 1], str[at + 2], str[at + 3], str[at + 4])

\* cluster_str2uint32(str + at), as the build has it.
cluster_str2uint32(str, at) ==
  IF big_endian
    THEN WordOf(str[at + 4], str[at + 3], str[at + 2], str[at + 1])
    ELSE WordOf(str[at + 1], str[at + 2], str[at + 3], str[at + 4])

\* cluster_uint2str(dest, i): the four bytes written.
cluster_uint2str(i) ==
  LET b == BytesOf(i)
  IN IF big_endian THEN <<b[4], b[3], b[2], b[1]>> ELSE b

\* A frame as the sender passes it to cluster_wrap_message.
Frame(type, filter, channel, msg) ==
  [type |-> type, filter |-> filter, channel |-> channel, msg |-> msg]

\* cluster_wrap_message(ch_len, msg_len, type, filter, ch_data, msg_data):
\* the bytes of the buffer.
cluster_wrap_message_bytes(f) ==
  cluster_uint2str(Len(f.channel)) \o cluster_uint2str(Len(f.msg))
    \o cluster_uint2str(f.type) \o cluster_uint2str(f.filter)
    \o f.channel \o f.msg

\* A length test that forgets the payload.
cluster_on_data_too_long_channel(ch_len, msg_len) ==
  ch_len # 0 /\ AtLeast(ch_len, 1024 * 1024 * 16)

\* The two length tests of cluster_on_data that end in exit(1).
cluster_on_data_too_long(ch_len, msg_len) ==
  \/ ch_len # 0 /\ AtLeast(ch_len, 1024 * 1024 * 16)
  \/ msg_len # 0 /\ AtLeast(msg_len, 1024 * 1024 * 64)

\* The loop of cluster_on_data from offset i of c->buffer; `out` is what the
\* handler was called with.  The result is c, i and out at the loop's exit.
RECURSIVE cluster_on_data_loop(_, _, _)
cluster_on_data_loop(c, i, out) ==
  LET length == Len(c.buffer)
      header == c.exp_channel = 0 /\ c.exp_msg = 0
      stop(c1, i1) == [c |-> c1, i |-> i1, out |-> out]
  IN IF header /\ length - i < 16 THEN stop(c, i)
     ELSE
       LET ch_len == cluster_str2uint32(c.buffer, i)
           msg_len == cluster_str2uint32(c.buffer, i + 4)
           h == IF header
                  THEN [c EXCEPT !.exp_channel = ch_len,
                                 !.exp_msg = msg_len,
                                 !.type = cluster_str2uint32(c.buffer, i + 8),
                                 !.filter = cluster_str2uint32(c.buffer, i + 12)]
                  ELSE c
           ih == IF header THEN i + 16 ELSE i
       IN IF header /\ cluster_on_data_too_long(ch_len, msg_len)
            THEN stop([h EXCEPT !.exited = TRUE], ih)
          ELSE IF h.exp_channel # 0 /\ h.exp_channel + ih > length
            THEN stop([h EXCEPT !.channel = @ \o SubSeq(c.buffer, ih + 1, length),
                                !.exp_channel = @ - (length - ih)], length)
          ELSE
            LET g == [h EXCEPT !.channel = @ \o SubSeq(c.buffer, ih + 1, ih + h.exp_channel),
                               !.exp_channel = 0]
                ig == ih + h.exp_channel
            IN IF g.exp_msg # 0 /\ g.exp_msg + ig > length
                 THEN stop([g EXCEPT !.msg = @ \o SubSeq(c.buffer, ig + 1, length),
                                     !.exp_msg = @ - (length - ig)], length)
               ELSE
                 LET m == g.msg \o SubSeq(c.buffer, ig + 1, ig + g.exp_msg)
                     im == ig + g.exp_msg
                     done == [g EXCEPT !.exp_msg = 0, !.channel = <<>>, !.msg = <<>>]
                     called == Append(out, Frame(g.type, g.filter, g.channel, m))
                 IN IF length > im
                      THEN cluster_on_data_loop(done, im, called)
                      ELSE [c |-> done, i |-> im, out |-> called]

\* cluster_client_handler over the frames of one read: kill(getpid(), SIGINT)
\* for every CLUSTER_MESSAGE_SHUTDOWN; the number of signals.
cluster_client_handler_signals(frames) ==
  Cardinality({k \in 1..Len(frames) : frames[k].type = CLUSTER_MESSAGE_SHUTDOWN})

\* cluster_on_data: sock_read returned n bytes; the loop runs and what it
\* left unread is moved to the front of c->buffer.
cluster_on_data(n) ==
  LET c == [reader EXCEPT !.buffer = @ \o SubSeq(wire, 1, n)]
      r == cluster_on_data_loop(c, 0, handled)
  IN /\ ~reader.exited
     /\ ~fate.closed
     /\ n <= CLUSTER_READ_BUFFER - Len(reader.buffer)
     /\ wire' = SubSeq(wire, n + 1, Len(wire))
     /\ reader' = [r.c EXCEPT !.buffer = SubSeq(@, r.i + 1, Len(@))]
     /\ handled' = r.out
     /\ fate' = [fate EXCEPT !.sigint =
                   @ + cluster_client_handler_signals(SubSeq(r.out, Len(handled) + 1, Len(r.out)))]
     /\ UNCHANGED <<big_endian, sent, pvars, xvars, cvars, gvars, rvars, fvars>>

NextWire == \E n \in 1..Len(wire) : cluster_on_data(n)

\* The frames a link may carry: a forwarded message, a filter message with a
\* negative filter and no channel, a ping with neither channel nor payload,
\* a subscription with a channel and no payload.
WireFrames ==
  { Frame(CLUSTER_MESSAGE_FORWARD, 0, <<99, 104>>, <<1, 2, 3>>),
    Frame(CLUSTER_MESSAGE_JSON, -7, <<>>, <<34, 255>>),
    Frame(CLUSTER_MESSAGE_PING, 0, <<>>, <<>>),
    Frame(CLUSTER_MESSAGE_PUBSUB_SUB, 7, <<99, 0>>, <<>>) }

RECURSIVE WireBytes(_)
WireBytes(frames) ==
  IF frames = <<>> THEN <<>>
  ELSE cluster_wrap_message_bytes(Head(frames)) \o WireBytes(Tail(frames))

InitWire ==
  /\ InitProcess(SequentialRun)
  /\ InitClusterIdle
  /\ big_endian \in BOOLEAN
  /\ sent \in UNION {[1..n -> WireFrames] : n \in 1..MaxFrames}
  /\ wire = WireBytes(sent)
  /\ reader = NoLink
  /\ handled = <<>>
  /\ fate = NoFate
  /\ InitGlobIdle /\ InitLinksIdle /\ InitForkIdle

SpecWire == InitWire /\ [][NextWire]_vars

\* C20: however the bytes of the frames are cut into reads, the handler has
\* been called with the first frames sent, each once and in order, with the
\* frame's type, filter, channel bytes and payload bytes, never with part of
\* a frame, and with all of them once the last byte was read.
C20_HandlerCalledOncePerFrame ==
  /\ Len(handled) <= Len(sent)
  /\ \A k \in 1..Len(handled) : handled[k] = sent[k]
  /\ wire = <<>> => handled = sent
  /\ ~reader.exited

\* A ping was handled and the next frame, whose channel is complete, is cut
\* after the first byte of its payload.
C20_Witness ==
  /\ Len(handled) = 1 /\ handled[1].channel = <<>> /\ handled[1].msg = <<>>
  /\ reader.exp_msg = 2 /\ reader.msg = <<1>> /\ reader.channel = <<99, 104>>
  /\ reader.exp_channel = 0 /\ reader.buffer = <<>>
  /\ wire # <<>>

(***************************************************************************)
(* facil_glob_match over patterns built from tokens: a literal byte, `?`,  *)
(* `*`, an escaped byte and a character class.  The pattern handed to the  *)
(* matcher is the text of the tokens; what the tokens mean is what a       *)
(* matcher that consumes pattern and input fully answers.                  *)
(***************************************************************************)
MaxTokens == 3
MaxInput == 2

Lit(b) == [k |-> "lit", b |-> b, inv |-> FALSE, spans |-> <<>>]
Esc(b) == [k |-> "esc", b |-> b, inv |-> FALSE, spans |-> <<>>]
AnyByte == [k |-> "any", b |-> 0, inv |-> FALSE, spans |-> <<>>]
Star == [k |-> "star", b |-> 0, inv |-> FALSE, spans |-> <<>>]
Class(inv, spans) == [k |-> "class", b |-> 0, inv |-> inv, spans |-> spans]

\* a, ?, *, \*, [a-c], [c-a], [^a], []a], [^]], [a-]
GlobTokens ==
  { Lit(97), AnyByte, Star, Esc(42),
    Class(FALSE, << <<97, 99>> >>), Class(FALSE, << <<99, 97>> >>),
    Class(TRUE, << <<97, 97>> >>), Class(FALSE, << <<93, 93>>, <<97, 97>> >>),
    Class(TRUE, << <<93, 93>> >>), Class(FALSE, << <<97, 97>>, <<45, 45>> >>) }

\* The input bytes: a, c, d, *, ]
GlobBytes == {97, 99, 100, 42, 93}
\* What is appended to an input: nothing, "X", "a".
GlobTails == { <<>>, <<88>>, <<97>> }

RECURSIVE SpansText(_)
SpansText(spans) ==
  IF spans = <<>> THEN <<>>
  ELSE LET sp == Head(spans)
       IN (IF sp[1] = sp[2] THEN <<sp[1]>> ELSE <<sp[1], 45, sp[2]>>)
            \o SpansText(Tail(spans))

\* The text of a token.
TokenText(tok) ==
  CASE tok.k = "lit" -> <<tok.b>>
    [] tok.k = "esc" -> <<92, tok.b>>
    [] tok.k = "any" -> <<63>>
    [] tok.k = "star" -> <<42>>
    [] OTHER -> <<91>> \o (IF tok.inv THEN <<94>> ELSE <<>>)
                  \o SpansText(tok.spans) \o <<93>>

RECURSIVE PatternText(_)
PatternText(toks) ==
  IF toks = <<>> THEN <<>> ELSE TokenText(Head(toks)) \o PatternText(Tail(toks))

\* A token other than `*` takes exactly the byte c.
TokenTakes(tok, c) ==
  CASE tok.k \in {"lit", "esc"} -> c = tok.b
    [] tok.k = "any" -> TRUE
    [] OTHER -> tok.inv #
                  (\E i \in 1..Len(tok.spans) :
                     LET a == tok.spans[i][1]
                         b == tok.spans[i][2]
                     IN IF a > b THEN b <= c /\ c <= a ELSE a <= c /\ c <= b)

\* The reference: pattern and input are consumed fully, `*` takes any run.
RECURSIVE RefMatch(_, _)
RefMatch(toks, s) ==
  IF toks = <<>> THEN s = <<>>
  ELSE IF Head(toks).k = "star"
    THEN \E n \in 0..Len(s) : RefMatch(Tail(toks), SubSeq(s, n + 1, Len(s)))
  ELSE /\ s # <<>>
       /\ TokenTakes(Head(toks), Head(s))
       /\ RefMatch(Tail(toks), Tail(s))

GlobInputs ==
  [toks : UNION {[1..n -> GlobTokens] : n \in 0..MaxTokens},
   s : UNION {[1..n -> GlobBytes] : n \in 0..MaxInput},
   t : GlobTails]

\* The pattern against s and against s followed by t, and the pattern
\* followed by `*` against s followed by t.
facil_glob_match_calls ==
  /\ glob \in GlobInputs
  /\ LET pat == PatternText(glob.toks)
     IN glob' = [toks |-> glob.toks, s |-> glob.s, t |-> glob.t,
                 p_s |-> GlobRun(Str(pat), Str(glob.s)),
                 p_st |-> GlobRun(Str(pat), Str(glob.s \o glob.t)),
                 pstar_st |-> GlobRun(Str(pat \o <<42>>), Str(glob.s \o glob.t))]
  /\ UNCHANGED <<pvars, xvars, cvars, wvars, rvars, fvars>>

NextGlob == facil_glob_match_calls

InitGlob ==
  /\ InitProcess(SequentialRun)
  /\ InitClusterIdle
  /\ InitWireIdle /\ InitLinksIdle /\ InitForkIdle
  /\ glob \in GlobInputs

SpecGlob == InitGlob /\ [][NextGlob]_vars

GlobDone == glob \notin GlobInputs /\ glob # <<>>

\* C21: if a pattern matches s, the pattern followed by `*` matches s
\* followed by any t, the empty t included.
C21_StarMatchesAnyRun ==
  (GlobDone /\ glob.p_s = "match") => glob.pstar_st = "match"

\* The last byte of the pattern's text is `*`.
LastByteStar ==
  LET pat == PatternText(glob.toks) IN pat # <<>> /\ pat[Len(pat)] = 42
\* The last token of the pattern is the wildcard `*`.
LastTokenStar == glob.toks # <<>> /\ glob.toks[Len(glob.toks)].k = "star"

\* C22 as stated: a pattern whose last byte is `*` and that matches s matches
\* s followed by any t.
C22_MonotoneOverLastByte ==
  (GlobDone /\ LastByteStar /\ glob.p_s = "match") => glob.p_st = "match"

\* C22: a pattern whose last token is the wildcard `*` (not the escaped
\* `\*`) and that matches s matches s followed by any t.
C22_MonotoneOverTrailingStar ==
  (GlobDone /\ LastTokenStar /\ glob.p_s = "match") => glob.p_st = "match"

\* "*[a-c]*" matches "cd" and "cdX".
C22_Witness ==
  /\ GlobDone
  /\ glob.toks = <<Star, Class(FALSE, << <<97, 99>> >>), Star>>
  /\ glob.s = <<99, 100>> /\ glob.t = <<88>>
  /\ glob.p_s = "match" /\ glob.p_st = "match"

NoStarToken == \A i \in 1..Len(glob.toks) : glob.toks[i].k # "star"

\* C23: for a pattern of classes, literals, `?` and escapes the matcher
\* answers what the reference answers: every token takes exactly one input
\* byte, a class takes the bytes of its spans (bounds in either order, a
\* leading `]` a member) or, after `^`, the other bytes, and pattern and
\* input are consumed fully.
C23_ClassesAndLiteralsAsReference ==
  (GlobDone /\ NoStarToken) =>
     /\ glob.p_s \in {"match", "nomatch"}
     /\ (glob.p_s = "match") = RefMatch(glob.toks, glob.s)

\* "[c-a][]a]" matches "c]".
C23_Witness ==
  /\ GlobDone
  /\ glob.toks = <<Class(FALSE, << <<99, 97>> >>),
                   Class(FALSE, << <<93, 93>>, <<97, 97>> >>)>>
  /\ glob.s = <<99, 93>>
  /\ glob.p_s = "match"

(***************************************************************************)
(* The worker's link to the root closes.                                   *)
(***************************************************************************)
\* cluster_on_close in a worker, for the link cluster_data.client: unless the
\* header parsed last was a SHUTDOWN or the reactor has stopped, the parent
\* is taken for crashed.
cluster_on_close ==
  /\ ~fate.closed
  /\ ~reader.exited
  /\ fate' = IF reader.type # CLUSTER_MESSAGE_SHUTDOWN /\ facil_is_running
               THEN [closed |-> TRUE, crush |-> fate.crush + 1,
                     sigint |-> fate.sigint + 1, unlinked |-> TRUE]
               ELSE [fate EXCEPT !.closed = TRUE]
  /\ UNCHANGED <<big_endian, sent, wire, reader, handled, pvars, xvars, cvars, gvars, rvars, fvars>>

NextClose ==
  \/ \E n \in 1..Len(wire) : cluster_on_data(n)
  \/ cluster_on_close

\* What the root may have written before the link closed.
CloseFrames ==
  { Frame(CLUSTER_MESSAGE_SHUTDOWN, 0, <<>>, <<>>),
    Frame(CLUSTER_MESSAGE_PING, 0, <<>>, <<>>),
    Frame(CLUSTER_MESSAGE_FORWARD, 0, <<99>>, <<1, 2>>) }

InitClose ==
  /\ InitProcess(SequentialRun)
  /\ home = [s \in CSubs |-> 0]
  /\ pub = [m \in CMsgs |-> NoPub]
  /\ sock = [w \in Workers |-> [up |-> <<>>, down |-> <<>>]]
  /\ disp = [p \in Procs |-> [m \in CMsgs |-> <<>>]]
  /\ fired = [s \in CSubs |-> [m \in CMsgs |-> 0]]
  /\ seen = [s \in CSubs |-> [m \in CMsgs |-> {}]]
  /\ epub = [m \in CMsgs |-> 0]
  /\ reactor \in BOOLEAN
  /\ big_endian \in BOOLEAN
  /\ sent \in UNION {[1..n -> CloseFrames] : n \in 0..MaxFrames}
  /\ wire = WireBytes(sent)
  /\ reader = NoLink
  /\ handled = <<>>
  /\ fate = NoFate
  /\ InitGlobIdle /\ InitLinksIdle /\ InitForkIdle

SpecClose == InitClose /\ [][NextClose]_vars

\* A SHUTDOWN frame was handed to the link's handler.
ShutdownReceived ==
  \E k \in 1..Len(handled) : handled[k].type = CLUSTER_MESSAGE_SHUTDOWN

\* C24: when the link has closed with the reactor running, ON_PARENT_CRUSH
\* was fired (once, with one SIGINT beside those of the SHUTDOWN frames) if
\* and only if no SHUTDOWN frame was received before, whatever frames or
\* parts of frames came after it.
C24_ParentCrashIffNoShutdown ==
  (fate.closed /\ facil_is_running) =>
     /\ fate.crush = (IF ShutdownReceived THEN 0 ELSE 1)
     /\ fate.sigint = fate.crush + cluster_client_handler_signals(handled)

(***************************************************************************)
(* A header that announces lengths at, above and below the limits.         *)
(***************************************************************************)
\* The lengths a header may announce: 0, 1, 16 MiB - 1, 16 MiB, 64 MiB - 1,
\* 64 MiB and 0xFFFFFFFF.
AnnouncedLengths == {0, 1, 16777215, 16777216, 67108863, 67108864, -1}

\* A header of a forwarded message with these lengths.
Announce(ch_len, msg_len) ==
  [type |-> CLUSTER_MESSAGE_FORWARD, filter |-> 0, ch_len |-> ch_len,
   msg_len |-> msg_len]

AnnounceBytes(a) ==
  cluster_uint2str(a.ch_len) \o cluster_uint2str(a.msg_len)
    \o cluster_uint2str(a.type) \o cluster_uint2str(a.filter)

\* The frame written after the header.
TrailingFrame == Frame(CLUSTER_MESSAGE_PING, 0, <<>>, <<>>)

\* Well-formed frames, then the header, then a ping.
InitLimits ==
  /\ InitProcess(SequentialRun)
  /\ InitClusterIdle
  /\ big_endian \in BOOLEAN
  /\ \E first \in {<<>>, <<Frame(CLUSTER_MESSAGE_JSON, -7, <<>>, <<34, 255>>)>>} :
       \E ch_len \in AnnouncedLengths : \E msg_len \in AnnouncedLengths :
         /\ sent = first \o <<Announce(ch_len, msg_len)>>
         /\ wire = WireBytes(first) \o AnnounceBytes(Announce(ch_len, msg_len))
                     \o WireBytes(<<TrailingFrame>>)
  /\ reader = NoLink
  /\ handled = <<>>
  /\ fate = NoFate
  /\ InitGlobIdle /\ InitLinksIdle /\ InitForkIdle

SpecLimits == InitLimits /\ [][NextWire]_vars

\* The header announced last was read whole.
AnnouncementRead == Len(wire) <= Len(WireBytes(<<TrailingFrame>>))
\* It announces a channel of 16 MiB or more or a payload of 64 MiB or more.
OverLimit ==
  LET a == sent[Len(sent)]
  IN AtLeast(a.ch_len, 16777216) \/ AtLeast(a.msg_len, 67108864)

\* C25: the process is terminated exactly when the header of a frame was
\* read whole and announces a channel of 16 MiB or more or a payload of
\* 64 MiB or more; the handler was then called for the frames before it and
\* for nothing else, and a header below both limits is never rejected.
C25_OversizeHeaderTerminates ==
  /\ reader.exited = (AnnouncementRead /\ OverLimit)
  /\ reader.exited => handled = SubSeq(sent, 1, Len(sent) - 1)

\* A frame was handled, then a header announcing a payload of 64 MiB ended
\* the process with the bytes of the ping unread.
C25_Witness ==
  /\ reader.exited
  /\ Len(handled) = 1
  /\ sent[Len(sent)].ch_len = 1 /\ sent[Len(sent)].msg_len = 67108864
  /\ wire # <<>>

(***************************************************************************)
(* The collections as a thread holding their lock finds them.              *)
(***************************************************************************)
\* The threads that hold the lock of collection k without being in the middle
\* of subscription_create: a publish2process walking the collection.
Observers(k) == {a \in running : a.pc = "p2c" /\ a.k = k}

\* C26: every channel present in a collection has a non-empty subscription
\* list, as observed by any thread that holds the lock of that collection.
C26_ListedChannelsHaveSubscribers ==
  \A k \in Kinds :
    Observers(k) # {} =>
      \A c \in Range(coll[k]) : chans[c].subscriptions # <<>>

(***************************************************************************)
(* Subscribing again while destroys of the channel are under way.          *)
(***************************************************************************)
\* A worker whose two threads subscribe to "ch.42" up to three times,
\* unsubscribe and publish to it, concurrently.
RacingRun ==
  [threads |-> NThreads, client |-> 1, subs |-> NSubsRace,
   subArgs |-> {SubArgs(0, Ch42, FALSE)},
   pubArgs |-> {PubArgs(0, Ch42)}]

InitRace == InitProcess(RacingRun) /\ InitClusterIdle /\ InitWireIdle /\ InitGlobIdle /\ InitLinksIdle /\ InitForkIdle

SpecRace == InitRace /\ [][Next]_vars

\* The handles facil_subscribe has returned and facil_unsubscribe was not
\* called with.
Held == {s \in Subs : subs[s].st = "live" /\ ~subs[s].unsub}

\* s is in the list of a channel_s that is allocated and stored in its
\* collection under the identity s was subscribed with.
ListedInPresentChannel(s, key) ==
  LET c == subs[s].parent
  IN /\ chans[c].mem = "live"
     /\ chans[c].id = key
     /\ c \in Range(coll[chans[c].parent])
     /\ s \in Range(chans[c].subscriptions)

\* C27: every subscription that subscribe returned and that was not
\* unsubscribed is listed in a channel present in its collection under its
\* identity: no concurrent destroy removes or frees the channel of a live
\* subscription, so that a later publish finds it.
C27_LiveSubscriptionStaysListed ==
  \A s \in Held : ListedInPresentChannel(s, Ch42)

(***************************************************************************)
(* The reference count of a subscription.                                  *)
(***************************************************************************)
\* The channels whose list holds s.
ListedIn(s) == {c \in Chans : s \in Range(chans[c].subscriptions)}

\* The deliveries publish2channel deferred for s that have not returned for
\* good: queued, or inside on_message.
UncompletedDeliveries(s) ==
  Cardinality(DeliveriesQueued(s)) + Cardinality(InCallback(s))

\* facil_unsubscribe(s) was called and its subscription_destroy has run to
\* its end.
Unsubscribed(s) == subs[s].unsub /\ ~Destroying(s)

\* C28: a subscription is listed in at most one channel and has a reference
\* while it is listed; its reference count is 1 until it has been
\* unsubscribed, plus one for each delivery task enqueued for it that has not
\* completed, and it is freed only when the count is 0.
C28_SubscriptionReferences ==
  \A s \in Subs :
    /\ Cardinality(ListedIn(s)) <= 1
    /\ ListedIn(s) # {} => subs[s].ref >= 1
    /\ subs[s].st # "none" =>
         subs[s].ref = (IF Unsubscribed(s) THEN 0 ELSE 1) + UncompletedDeliveries(s)
    /\ subs[s].st = "freed" <=> (subs[s].st # "none" /\ subs[s].ref = 0)

\* An unsubscribed handle that a delivery still in the queue keeps allocated.
C28_Witness ==
  \E s \in Subs :
    /\ Unsubscribed(s)
    /\ subs[s].st = "live"
    /\ DeliveriesQueued(s) # {}
    /\ subs[s].ref = 1

(***************************************************************************)
(* The reference count of a message.                                       *)
(***************************************************************************)
\* The publish2process calls that allocated m and have not yet dropped their
\* reference.
Dispatching(m) == {a \in running : a.pc \in {"p2c", "p2pat"} /\ a.m = m}

\* The deliveries of m that have not returned for good: queued (a deferred
\* view is queued again) or inside on_message.
UncompletedViews(m) ==
  Cardinality({t \in tasks : t.fn = "perform_subscription_callback" /\ t.m = m})
    + Cardinality({a \in running : a.pc = "on_message" /\ a.m = m})

\* C29: the reference count of a message is 1 while the publish that
\* allocated it is still dispatching, plus one for each delivery that has not
\* completed; the message is destroyed when, and only when, that count is 0,
\* and the on_finish of each of its metadata nodes is called exactly once,
\* at that destruction.
C29_MessageReferences ==
  \A m \in Msgs :
    /\ msgs[m].st # "none" =>
         msgs[m].ref = Cardinality(Dispatching(m)) + UncompletedViews(m)
    /\ Cardinality(Dispatching(m)) <= 1
    /\ msgs[m].st = "freed" <=> (msgs[m].st # "none" /\ msgs[m].ref = 0)
    /\ msgs[m].on_finish = IF msgs[m].st = "freed" THEN msgs[m].meta ELSE <<>>

\* A message with two metadata nodes that was delivered, a view of it
\* deferred once, and then destroyed.
C29_Witness ==
  \E m \in Msgs :
    /\ msgs[m].st = "freed"
    /\ Len(msgs[m].meta) = 2
    /\ sched[m] # {}
    /\ defers = 1

(***************************************************************************)
(* The order in which one dispatch defers its deliveries.                  *)
(***************************************************************************)
PatAll == Str(<<42>>)    \* "*"

\* The root, one thread, up to three subscriptions among channel "ch.42" and
\* patterns "ch.*" and "*"; publishes to "ch.42" and "other".
OrderedRun ==
  [threads |-> 1, client |-> 0, subs |-> NSubsRace,
   subArgs |-> {SubArgs(0, Ch42, FALSE), SubArgs(0, PatCh, TRUE),
                SubArgs(0, PatAll, TRUE)},
   pubArgs |-> {PubArgs(0, Ch42), PubArgs(0, ChOther)}]

InitOrder == InitProcess(OrderedRun) /\ InitClusterIdle /\ InitWireIdle /\ InitGlobIdle /\ InitLinksIdle /\ InitForkIdle

SpecOrder == InitOrder /\ [][NextSeq]_vars

\* The subscription lists of the channels of q, one after the other.
RECURSIVE ListsOf(_)
ListsOf(q) ==
  IF q = <<>> THEN <<>> ELSE chans[Head(q)].subscriptions \o ListsOf(Tail(q))

\* The list of the channel stored in pubsub under the message's channel name.
ExactList(m) == ListsOf(Found(fio_hash_find(coll["pubsub"], msgs[m].channel)))

\* The first n elements of q.
Prefix(q, n) == SubSeq(q, 1, n)

\* C30: within one dispatch with filter 0 the deliveries are deferred in this
\* order: the subscriptions of the exact-match channel in list order, then
\* those of each matching pattern in the order the patterns collection is
\* iterated; nothing is deferred for a pattern before the exact match.
C30_ExactBeforePatternsInOrder ==
  [][ \A a \in running :
        (a.pc = "p2c" /\ msgs[a.m].filter = 0 /\ enqueued'[a.m] # enqueued[a.m]) =>
          LET c == Head(a.todo)
              matching == MatchingPatterns(coll["patterns"], msgs[a.m].channel)
          IN /\ enqueued'[a.m] = enqueued[a.m] \o chans[c].subscriptions
             /\ a.k = "pubsub" => enqueued[a.m] = <<>>
             /\ a.k = "patterns" =>
                  \E i \in 1..Len(matching) :
                    /\ matching[i] = c
                    /\ enqueued[a.m] =
                         ExactList(a.m) \o ListsOf(Prefix(matching, i - 1))
    ]_vars

\* A message published to "ch.42" was deferred for the subscriber of "ch.42",
\* then for that of the pattern subscribed first, "*", then for that of "ch.*",
\* the exact-match subscription being the youngest of the three.
C30_Witness ==
  \E m \in Msgs :
    /\ Len(enqueued[m]) = 3
    /\ chans[subs[enqueued[m][1]].parent].id = Ch42
    /\ chans[subs[enqueued[m][2]].parent].id = PatAll
    /\ chans[subs[enqueued[m][3]].parent].id = PatCh
    /\ enqueued[m][1] = 3

(***************************************************************************)
(* The root's end of the cluster links: the frames with which a worker     *)
(* reports its channels, and the close of a link.  The handler of a link   *)
(* is cut where subscription_create and subscription_destroy are: they run *)
(* as in any other caller, against the root's own postoffice.              *)
(***************************************************************************)
NLinks == 2           \* the links the root has accepted
MaxLinkFrames == 4    \* frames the links deliver to the root, all together
MaxBroadcasts == 1    \* frames the root writes to its clients

Links == 1..NLinks

\* A cluster_pr_s of the root as cluster_alloc and cluster_listen_accept leave
\* it: listed in cluster_data.clients, both tables empty.  pc, type, channel
\* and s are the handler's position and locals; frames and written count the
\* frames read from the link and written to it, last is the type of the last
\* frame handled for each table (0: none yet).
NoRootLink ==
  [open |-> TRUE, listed |-> TRUE, pubsub |-> <<>>, patterns |-> <<>>,
   pc |-> "idle", type |-> 0, channel |-> FIOBJ_INVALID, s |-> 0,
   frames |-> 0, written |-> 0, last |-> [pubsub |-> 0, patterns |-> 0]]

\* An entry of pr->pubsub.channels or pr->patterns.channels.
Entry(key, s) == [key |-> key, s |-> s]

\* fio_hash_find on a table of a link: the subscription under key, or 0.
link_find(table, key) ==
  LET hit == {i \in 1..Len(table) : table[i].key = key}
  IN IF hit = {} THEN 0 ELSE table[CHOOSE i \in hit : TRUE].s

\* An insert that adds an entry even where the key has one.
link_insert_again(table, key, s) ==
  IF s = 0 THEN SelectSeq(table, LAMBDA e : e.key # key)
  ELSE Append(table, Entry(key, s))

\* fio_hash_insert(table, key, s): the entry under key is replaced in place,
\* a new key goes last; s = 0 (NULL) removes the entry.
link_insert(table, key, s) ==
  IF s = 0 THEN SelectSeq(table, LAMBDA e : e.key # key)
  ELSE IF link_find(table, key) = 0 THEN Append(table, Entry(key, s))
  ELSE [i \in 1..Len(table) |->
          IF table[i].key = key THEN Entry(key, s) ELSE table[i]]

\* The frames the root has read from its links.
RECURSIVE FramesUpTo(_)
FramesUpTo(w) == IF w = 0 THEN 0 ELSE links[w].frames + FramesUpTo(w - 1)
FramesRead == FramesUpTo(NLinks)

\* The table a frame type is kept in.
TableOf(type) ==
  IF type \in {CLUSTER_MESSAGE_PUBSUB_SUB, CLUSTER_MESSAGE_PUBSUB_UNSUB}
    THEN "pubsub" ELSE "patterns"

\* subscription_destroy(s, NULL) called by a handler of the root, or nothing
\* when the table held no subscription.
destroy_if_any(s) ==
  IF s = 0
    THEN UNCHANGED pvars
    ELSE ThreadFree /\ subscription_destroy(s, {})

\* The subscription_destroy the handler of w called last has returned.
Returned(w) ==
  \A a \in running :
    a.s = links[w].s => a.pc \notin {"sd_unlock", "cd_lock", "cd_notify", "cd_free"}

\* cluster_server_handler, PUBSUB_SUB and PATTERN_SUB: subscription_create
\* with the frame's channel, mock_on_message and .match = NULL.
cluster_server_handler_sub(w, s, type, ch) ==
  /\ links[w].open /\ links[w].pc = "idle"
  /\ Returned(w)
  /\ FramesRead < MaxLinkFrames
  /\ type \in {CLUSTER_MESSAGE_PUBSUB_SUB, CLUSTER_MESSAGE_PATTERN_SUB}
  /\ subscription_create_find(s, SubArgs(0, ch, FALSE))
  /\ links' = [links EXCEPT ![w].pc = "insert", ![w].type = type,
                            ![w].channel = ch, ![w].s = s,
                            ![w].frames = @ + 1]
  /\ UNCHANGED <<xvars, cvars, wvars, gvars, fvars>>

\* The rest of the two cases, once subscription_create has returned: the
\* subscription replaces what the link's table held under the channel, and
\* what it held is destroyed.
cluster_server_handler_insert(w) ==
  LET k == TableOf(links[w].type)
      old == link_find(links[w][k], links[w].channel)
  IN /\ links[w].pc = "insert"
     /\ subs[links[w].s].st = "live"
     /\ links' = [links EXCEPT ![w][k] = link_insert(@, links[w].channel, links[w].s),
                               ![w].last[k] = links[w].type,
                               ![w].pc = "idle", ![w].s = old,
                               ![w].type = 0, ![w].channel = FIOBJ_INVALID]
     /\ destroy_if_any(old)
     /\ UNCHANGED <<xvars, cvars, wvars, gvars, fvars>>

\* cluster_server_handler, PUBSUB_UNSUB and PATTERN_UNSUB: the entry is taken
\* out of the link's table and the subscription destroyed.
cluster_server_handler_unsub(w, type, ch) ==
  LET k == TableOf(type)
      old == link_find(links[w][k], ch)
  IN /\ links[w].open /\ links[w].pc = "idle"
     /\ Returned(w)
     /\ FramesRead < MaxLinkFrames
     /\ type \in {CLUSTER_MESSAGE_PUBSUB_UNSUB, CLUSTER_MESSAGE_PATTERN_UNSUB}
     /\ links' = [links EXCEPT ![w][k] = link_insert(@, ch, 0),
                               ![w].last[k] = type,
                               ![w].s = old, ![w].frames = @ + 1]
     /\ destroy_if_any(old)
     /\ UNCHANGED <<xvars, cvars, wvars, gvars, fvars>>

\* A close that leaves the uuid in cluster_data.clients.
cluster_on_close_root_listed(w) ==
  /\ links[w].open /\ links[w].pc = "idle"
  /\ Returned(w)
  /\ links' = [links EXCEPT ![w].open = FALSE, ![w].pc = "closing"]
  /\ UNCHANGED <<pvars, xvars, cvars, wvars, gvars, fvars>>

\* cluster_on_close in the root: the link leaves cluster_data.clients.
cluster_on_close_root(w) ==
  /\ links[w].open /\ links[w].pc = "idle"
  /\ Returned(w)
  /\ links' = [links EXCEPT ![w].open = FALSE, ![w].listed = FALSE,
                            ![w].pc = "closing"]
  /\ UNCHANGED <<pvars, xvars, cvars, wvars, gvars, fvars>>

\* cluster_on_close: FIO_HASH_FOR_FREE over pubsub, then over patterns, with
\* subscription_destroy for each entry.
cluster_on_close_free(w) ==
  LET k == IF links[w].pubsub # <<>> THEN "pubsub" ELSE "patterns"
  IN /\ links[w].pc = "closing"
     /\ Returned(w)
     /\ IF links[w][k] = <<>>
          THEN /\ links' = [links EXCEPT ![w].pc = "closed"]
               /\ UNCHANGED pvars
          ELSE /\ links' = [links EXCEPT ![w][k] = Tail(@),
                                         ![w].s = Head(links[w][k]).s]
               /\ ThreadFree
               /\ subscription_destroy(Head(links[w][k]).s, {})
     /\ UNCHANGED <<xvars, cvars, wvars, gvars, fvars>>

\* cluster_server_sender: a copy of the frame to every uuid of
\* cluster_data.clients.
cluster_server_sender_root ==
  /\ \A w \in Links : links[w].written < MaxBroadcasts
  /\ links' = [w \in Links |->
                 IF links[w].listed THEN [links[w] EXCEPT !.written = @ + 1]
                 ELSE links[w]]
  /\ UNCHANGED <<pvars, xvars, cvars, wvars, gvars, fvars>>

\* A step of the root's postoffice that no link's table changes with.
InRoot(A) == A /\ UNCHANGED <<xvars, cvars, wvars, gvars, rvars, fvars>>

\* The frames a worker sends for its channel "ch.42" and its pattern "ch.*".
ReportFrames ==
  {[type |-> CLUSTER_MESSAGE_PUBSUB_SUB, channel |-> Ch42],
   [type |-> CLUSTER_MESSAGE_PUBSUB_UNSUB, channel |-> Ch42],
   [type |-> CLUSTER_MESSAGE_PATTERN_SUB, channel |-> PatCh],
   [type |-> CLUSTER_MESSAGE_PATTERN_UNSUB, channel |-> PatCh]}

NextRoot ==
  \/ \E w \in Links : \E s \in Subs : \E f \in ReportFrames :
       cluster_server_handler_sub(w, s, f.type, f.channel)
  \/ \E w \in Links : cluster_server_handler_insert(w)
  \/ \E w \in Links : \E f \in ReportFrames :
       cluster_server_handler_unsub(w, f.type, f.channel)
  \/ \E w \in Links : cluster_on_close_root(w)
  \/ \E w \in Links : cluster_on_close_free(w)
  \/ cluster_server_sender_root
  \/ \E a \in running : InRoot(subscription_create_push(a))
  \/ \E t \in tasks : InRoot(subscription_destroy_task(t))
  \/ \E a \in running : InRoot(subscription_destroy_unlock(a))
  \/ \E a \in running : InRoot(channel_destroy_lock(a))
  \/ \E a \in running : InRoot(channel_destroy_notify(a))
  \/ \E a \in running : InRoot(channel_destroy_free(a))
  \/ \E a \in running : InRoot(use_after_free(a))

\* The root: two threads serve the links; nothing subscribes locally.
RootRun ==
  [threads |-> NThreads, client |-> 0, subs |-> NSubsRace,
   subArgs |-> {}, pubArgs |-> {}]

\* An engine is attached before the first link is accepted.
InitRoot ==
  /\ cfg = RootRun
  /\ client = 0
  /\ subs = [s \in Subs |-> NoSub]
  /\ chans = [x \in Chans |-> NoChan]
  /\ coll = [k \in Kinds |-> <<>>]
  /\ collLock = [k \in Kinds |-> FALSE]
  /\ msgs = [m \in Msgs |-> NoMsg]
  /\ tasks = {}
  /\ running = {}
  /\ engine = [x \in Chans |-> NoCalls]
  /\ late = [NoEngine EXCEPT !.in = TRUE, !.pc = "attached"]
  /\ meta = <<>>
  /\ refused = <<>>
  /\ upstream = <<>>
  /\ defers = 0
  /\ sched = [m \in Msgs |-> {}]
  /\ enqueued = [m \in Msgs |-> <<>>]
  /\ crashed = FALSE
  /\ links = [w \in Links |-> NoRootLink]
  /\ InitClusterIdle /\ InitWireIdle /\ InitGlobIdle /\ InitForkIdle

SpecRoot == InitRoot /\ [][NextRoot]_vars

(***************************************************************************)
(* Properties of the root's links.                                         *)
(***************************************************************************)
\* The mock subscriptions some link holds or is about to insert.
HeldByLinks ==
  {s \in Subs : \E w \in Links :
     \/ \E i \in 1..Len(links[w].pubsub) : links[w].pubsub[i].s = s
     \/ \E i \in 1..Len(links[w].patterns) : links[w].patterns[i].s = s
     \/ links[w].pc = "insert" /\ links[w].s = s}

\* The calls the engine got for one channel name, in order.
CallsFor(id) == SelectSeq(late.log, LAMBDA e : e.id = id)

\* Link w holds a mock subscription for "ch.42" in its pubsub table.
HoldsCh42(lv, w) == link_find(lv[w].pubsub, Ch42) # 0

\* C31: between two frames a link's table holds one mock subscription for c
\* if the last PUBSUB frame for c was a SUB and none otherwise; a mock
\* subscription that was replaced or removed is destroyed; the one held is
\* listed in the root's channel c, which a repeated SUB therefore never
\* empties, and while the frames come from that one link the engines are told
\* nothing about c by a step that starts and ends with the link holding c.
C31_LinkTableFollowsFrames ==
  [][ /\ \A w \in Links :
           (links'[w].open /\ links'[w].pc = "idle") =>
             LET s == link_find(links'[w].pubsub, Ch42)
             IN /\ (links'[w].last.pubsub = CLUSTER_MESSAGE_PUBSUB_SUB) <=> (s # 0)
                /\ Cardinality({i \in 1..Len(links'[w].pubsub) :
                                  links'[w].pubsub[i].key = Ch42}) <= 1
                /\ s # 0 => /\ subs'[s].st = "live" /\ ~subs'[s].unsub
                            /\ s \in Range(chans'[subs'[s].parent].subscriptions)
                            /\ chans'[subs'[s].parent].id = Ch42
      /\ \A s \in Subs :
           (subs'[s].st # "none" /\ s \notin HeldByLinks') => subs'[s].unsub
      /\ \A w \in Links :
           ( /\ \A v \in Links \ {w} : links[v].frames = 0
             /\ HoldsCh42(links, w) /\ HoldsCh42(links', w) ) =>
             CallsFor(Ch42)' = CallsFor(Ch42)
    ]_vars

\* A link sent SUB twice for "ch.42": the first mock subscription is freed,
\* the second is held, and the engine was called once.
C31_Witness ==
  \E w \in Links :
    /\ links[w].pc = "idle" /\ links[w].frames = 2
    /\ link_find(links[w].pubsub, Ch42) = 2
    /\ subs[1].st = "freed"
    /\ late.log = <<Call("subscribe", Ch42, FALSE)>>

\* C32: the pattern frames of a link are kept in the root's patterns
\* collection only: the mock subscription of a PATTERN_SUB is listed in a
\* pattern channel carrying the match function, the engines are called with
\* that match function, and no channel of the exact-match pubsub collection
\* is created or removed for a pattern.
C32_PatternFramesUsePatterns ==
  /\ \A c \in Range(coll["pubsub"]) : chans[c].id # PatCh
  /\ \A w \in Links : \A i \in 1..Len(links[w].patterns) :
       LET c == subs[links[w].patterns[i].s].parent
       IN chans[c].parent = "patterns" /\ chans[c].match
  /\ \A i \in 1..Len(late.log) : late.log[i].id = PatCh => late.log[i].match

\* Nothing is in progress in the root: no call, no deferred task.
RootQuiet == running = {} /\ tasks = {}

\* C33: when a link closes the root keeps running and takes the link off its
\* broadcast list, so that no later frame is written to it; every mock
\* subscription of the link's tables is destroyed, and once that is done a
\* channel no other link holds is gone from the root's collections, the
\* engine's last call for it being unsubscribe.
C33_ClosedLinkIsForgotten ==
  [][ /\ \A w \in Links :
           /\ (links[w].open /\ ~links'[w].open) =>
                reactor' /\ crashed' = crashed
           /\ ~links[w].open => links'[w].written = links[w].written
           /\ ~links'[w].open => ~links'[w].listed
           /\ links'[w].pc = "closed" =>
                links'[w].pubsub = <<>> /\ links'[w].patterns = <<>>
      /\ \A s \in Subs :
           (subs'[s].st # "none" /\ s \notin HeldByLinks') => subs'[s].unsub
      /\ (RootQuiet' /\ HeldByLinks' = {}) =>
           /\ \A k \in Kinds : coll'[k] = <<>>
           /\ \A id \in {Ch42, PatCh} :
                CallsFor(id)' # <<>> =>
                  CallsFor(id)'[Len(CallsFor(id)')].op = "unsubscribe"
    ]_vars

\* A link that held the only mock subscription of "ch.42" has closed: the
\* channel is gone and the engine was told so; the root wrote a frame to the
\* other link only.
C33_Witness ==
  /\ links[1].pc = "closed" /\ links[1].frames = 1 /\ links[1].written = 0
  /\ links[2].open /\ links[2].frames = 0 /\ links[2].written = 1
  /\ RootQuiet
  /\ coll["pubsub"] = <<>>
  /\ late.log = <<Call("subscribe", Ch42, FALSE), Call("unsubscribe", Ch42, FALSE)>>

(***************************************************************************)
(* A fork of the process.  The parent's threads run until one of them      *)
(* forks; from there the model follows the child: it has a copy of the     *)
(* parent's memory, locks included, and only the forking thread.           *)
(***************************************************************************)
\* The locks of cluster_data, postoffice.meta and postoffice.engines.
ForkLocks == {"cluster", "meta", "engines"}

NoFork == [pc |-> "parent", cluster |-> FALSE, meta |-> FALSE, engines |-> FALSE]

\* A thread of the parent enters a section held under one of these locks:
\* cluster_server_sender, facil_message_metadata_set, facil_pubsub_attach.
spn_lock(l) ==
  /\ forked.pc = "parent"
  /\ ~forked[l]
  /\ forked' = [forked EXCEPT ![l] = TRUE]
  /\ UNCHANGED <<pvars, xvars, cvars, wvars, gvars, rvars, leaving>>

spn_unlock(l) ==
  /\ forked.pc = "parent"
  /\ forked[l]
  /\ forked' = [forked EXCEPT ![l] = FALSE]
  /\ UNCHANGED <<pvars, xvars, cvars, wvars, gvars, rvars, leaving>>

\* fork(): the child has every object as it was, held locks held, and none
\* of the threads that were in the middle of a call.
facil_fork ==
  /\ forked.pc = "parent"
  /\ forked' = [forked EXCEPT !.pc = "forked"]
  /\ running' = {}
  /\ UNCHANGED <<cfg, client, subs, chans, coll, collLock, msgs, tasks, engine,
                 late, upstream, defers, sched, enqueued, crashed>>
  /\ UNCHANGED <<xvars, cvars, wvars, gvars, rvars, leaving>>

\* The channels after the hook's three loops: the lock of every channel found
\* in a collection is reset.
UnlockedChannels ==
  [c \in Chans |->
     IF \E k \in Kinds : c \in Range(coll[k])
       THEN [chans[c] EXCEPT !.lock = FALSE] ELSE chans[c]]

\* The locks the hook resets: the three collections', the engines', the
\* metadata's and the lock of every channel found in a collection.
facil_cluster_in_child ==
  /\ forked.pc = "forked"
  /\ collLock' = [k \in Kinds |-> FALSE]
  /\ chans' = UnlockedChannels
  /\ forked' = [forked EXCEPT !.pc = "child", !.engines = FALSE, !.meta = FALSE]
  /\ UNCHANGED <<cfg, client, subs, coll, msgs, tasks, running, engine, late,
                 upstream, defers, sched, enqueued, crashed>>
  /\ UNCHANGED <<xvars, cvars, wvars, gvars, rvars, leaving>>

\* A step of the parent before the fork or of the child after the hook.
InFork(A) == forked.pc # "forked" /\ InProcess(A)

\* The subscribing, publishing and delivering steps of the process.
ForkSteps ==
  \/ \E s \in Subs : \E args \in cfg.subArgs : InFork(subscription_create_find(s, args))
  \/ \E a \in running : InFork(subscription_create_push(a))
  \/ \E s \in Subs : InFork(facil_unsubscribe(s))
  \/ \E t \in tasks : InFork(subscription_destroy_task(t))
  \/ \E a \in running : InFork(subscription_destroy_unlock(a))
  \/ \E a \in running : InFork(channel_destroy_lock(a))
  \/ \E a \in running : InFork(channel_destroy_notify(a))
  \/ \E a \in running : InFork(channel_destroy_free(a))
  \/ \E a \in running : InFork(use_after_free(a))
  \/ \E args \in cfg.pubArgs : InFork(publish2process_start(args))
  \/ \E a \in running : InFork(publish2channel(a))
  \/ \E a \in running : InFork(publish2channel_unlock(a))
  \/ \E a \in running : InFork(publish2process_unlock(a))
  \/ \E a \in running : InFork(publish2process_patterns(a))
  \/ \E t \in tasks : InFork(perform_subscription_callback_defer(t))
  \/ \E t \in tasks : InFork(perform_subscription_callback(t))
  \/ \E a \in running : InFork(perform_subscription_callback_return(a, FALSE))

NextFork ==
  \/ \E l \in ForkLocks : spn_lock(l)
  \/ \E l \in ForkLocks : spn_unlock(l)
  \/ facil_fork
  \/ facil_cluster_in_child
  \/ ForkSteps

\* A process whose threads subscribe to "ch.42", unsubscribe and publish to
\* it; its callbacks return without deferring the message.
ForkRun ==
  [threads |-> NThreads, client |-> 1, subs |-> NSubs,
   subArgs |-> {SubArgs(0, Ch42, FALSE)}, pubArgs |-> {PubArgs(0, Ch42)}]

InitFork ==
  /\ InitProcess(ForkRun) /\ InitClusterIdle /\ InitWireIdle /\ InitGlobIdle
  /\ InitLinksIdle
  /\ forked = NoFork /\ leaving = <<>>

SpecFork == InitFork /\ [][NextFork]_vars

\* The hook has just returned in the child.
InChildHook == forked.pc = "forked" /\ forked'.pc = "child"

\* C34: after the IN_CHILD hook has run in a child, every lock of the
\* postoffice and of the cluster is unlocked whatever it was in the parent
\* when it forked: the three collection locks, every channel's lock, the
\* cluster-data lock, the metadata lock and the engine lock.
C34_ChildLocksAreFree ==
  [][InChildHook =>
       /\ \A k \in Kinds : ~collLock'[k]
       /\ \A c \in Chans : chans'[c].mem = "live" => ~chans'[c].lock
       /\ ~forked'.cluster /\ ~forked'.meta /\ ~forked'.engines]_vars

\* The deferred-task queue and the threads are fair: a step of the process
\* that can be taken is eventually taken, and a child runs its hook.
\* The fork of a process none of whose threads is in the cluster's, the
\* metadata's or the engines' section.
NextForkSteps ==
  \/ facil_fork
  \/ facil_cluster_in_child
  \/ ForkSteps

FairFork ==
  /\ InitFork /\ [][NextForkSteps]_vars
  /\ WF_vars(ForkSteps) /\ WF_vars(facil_cluster_in_child)

\* C39: under fair execution of the deferred tasks and callbacks that return
\* without deferring the message, every delivery task enqueued by a dispatch
\* eventually invokes its subscription's callback and completes, also in a
\* worker forked while a thread of the parent was inside that callback.
C39_DeliveriesComplete ==
  \A s \in Subs :
    (DeliveriesQueued(s) # {}) ~> (DeliveriesQueued(s) = {} \/ crashed)

\* The same in a process that has not forked.
ParentDeliveriesComplete ==
  \A s \in Subs :
    (DeliveriesQueued(s) # {}) ~>
      (DeliveriesQueued(s) = {} \/ crashed \/ forked.pc # "parent")

(***************************************************************************)
(* The order of the collection and channel locks.                          *)
(***************************************************************************)
\* The lock a thread is about to take with spn_lock, if any: the channel's in
\* subscription_create and publish2channel, the collection's in
\* channel_destroy and before the patterns of publish2process.
WaitsForChannel(a) ==
  IF a.pc = "create_push" THEN a.c
  ELSE IF a.pc = "p2c" /\ a.c = 0 /\ a.todo # <<>> THEN Head(a.todo)
  ELSE 0

WaitsForCollection(a) ==
  IF a.pc = "cd_lock" THEN {chans[a.c].parent}
  ELSE IF a.pc = "p2pat" THEN {"patterns"}
  ELSE {}

Blocked(a) ==
  \/ WaitsForChannel(a) # 0 /\ chans[WaitsForChannel(a)].lock
  \/ \E k \in WaitsForCollection(a) : collLock[k]

\* C35: no thread waits for a collection lock while it holds a channel lock;
\* a thread that holds both took the collection's first and holds the
\* collection of that channel; unsubscribe releases the channel lock before
\* channel_destroy takes the collection's; so among the threads inside
\* subscribe, unsubscribe and publish one can always take its next step.
C35_CollectionThenChannel ==
  /\ \A k \in Kinds : collLock[k] <=> Cardinality(CollectionHolders(k)) = 1
  /\ \A c \in Chans :
       chans[c].mem = "live" =>
         (chans[c].lock <=> Cardinality(ChannelHolders(c)) = 1)
  /\ \A a \in running :
       /\ WaitsForCollection(a) # {} => \A c \in Chans : a \notin ChannelHolders(c)
       /\ \A c \in Chans : \A k \in Kinds :
            (chans[c].mem = "live" /\ a \in ChannelHolders(c) /\ a \in CollectionHolders(k))
              => chans[c].parent = k
  /\ (~crashed /\ running # {}) => \E a \in running : ~Blocked(a)

\* One thread is inside subscription_destroy with the channel locked while
\* another is inside subscription_create with the collection locked, waiting
\* for that channel.
C35_Witness ==
  \E a, b \in running :
    /\ a.pc = "sd_unlock" /\ b.pc = "create_push" /\ a.c = b.c
    /\ chans[a.c].lock /\ collLock[b.k] /\ Blocked(b) /\ ~Blocked(a)

(***************************************************************************)
(* A worker connects to the root.                                          *)
(***************************************************************************)
\* The frames inform_root_about_channel writes for the channels of a table,
\* in table order; `pattern` tells whether the channel's match is passed.
RECURSIVE ReplayFrames(_, _)
ReplayFrames(list, pattern) ==
  IF list = <<>> THEN <<>>
  ELSE inform_root_about_channel(chans[Head(list)].id,
                                 pattern /\ chans[Head(list)].match, TRUE)
         \o ReplayFrames(Tail(list), pattern)

\* facil_cluster_on_connect(uuid): the link is the cluster's client.
facil_cluster_on_connect(uuid) ==
  /\ ThreadFree
  /\ client = 0
  /\ client' = uuid
  /\ running' = running \cup {Act("oc_pubsub", 0, 0, 0, "pubsub", <<>>)}
  /\ UNCHANGED <<cfg, subs, chans, coll, collLock, msgs, tasks, engine, late,
                 upstream, defers, sched, enqueued, crashed>>

\* A replay that also walks postoffice.filters.
facil_cluster_on_connect_filters(a) ==
  /\ ~crashed
  /\ a.pc = "oc_pubsub"
  /\ ~collLock["pubsub"]
  /\ upstream' = upstream \o ReplayFrames(coll["pubsub"] \o coll["filters"], FALSE)
  /\ running' = (running \ {a}) \cup {[a EXCEPT !.pc = "oc_patterns", !.k = "patterns"]}
  /\ UNCHANGED <<cfg, client, subs, chans, coll, collLock, msgs, tasks, engine,
                 late, defers, sched, enqueued, crashed>>

\* Under postoffice.pubsub.lock: one frame per channel of the table.
facil_cluster_on_connect_pubsub(a) ==
  /\ ~crashed
  /\ a.pc = "oc_pubsub"
  /\ ~collLock["pubsub"]
  /\ upstream' = upstream \o ReplayFrames(coll["pubsub"], FALSE)
  /\ running' = (running \ {a}) \cup {[a EXCEPT !.pc = "oc_patterns", !.k = "patterns"]}
  /\ UNCHANGED <<cfg, client, subs, chans, coll, collLock, msgs, tasks, engine,
                 late, defers, sched, enqueued, crashed>>

\* Under postoffice.patterns.lock: one frame per pattern, with its match.
facil_cluster_on_connect_patterns(a) ==
  /\ ~crashed
  /\ a.pc = "oc_patterns"
  /\ ~collLock["patterns"]
  /\ upstream' = upstream \o ReplayFrames(coll["patterns"], TRUE)
  /\ running' = running \ {a}
  /\ UNCHANGED <<cfg, client, subs, chans, coll, collLock, msgs, tasks, engine,
                 late, defers, sched, enqueued, crashed>>

NextConnect ==
  \/ InProcess(facil_cluster_on_connect(1))
  \/ \E a \in running : InProcess(facil_cluster_on_connect_pubsub(a))
  \/ \E a \in running : InProcess(facil_cluster_on_connect_patterns(a))
  \/ \E s \in Subs : \E args \in cfg.subArgs : InProcess(subscription_create_find(s, args))
  \/ \E a \in running : InProcess(subscription_create_push(a))
  \/ \E s \in Subs : InProcess(facil_unsubscribe(s))
  \/ \E t \in tasks : InProcess(subscription_destroy_task(t))
  \/ \E a \in running : InProcess(subscription_destroy_unlock(a))
  \/ \E a \in running : InProcess(channel_destroy_lock(a))
  \/ \E a \in running : InProcess(channel_destroy_notify(a))
  \/ \E a \in running : InProcess(channel_destroy_free(a))
  \/ \E a \in running : InProcess(use_after_free(a))

\* A worker not yet connected whose threads subscribe to "ch.42", to the
\* pattern "ch.*" and to filter 7, and unsubscribe.
ConnectRun ==
  [threads |-> NThreads, client |-> 0, subs |-> NSubsRace,
   subArgs |-> {SubArgs(0, Ch42, FALSE), SubArgs(0, PatCh, TRUE),
                SubArgs(Filter7, FIOBJ_INVALID, FALSE)},
   pubArgs |-> {}]

InitConnect ==
  /\ InitProcess(ConnectRun) /\ InitClusterIdle /\ InitWireIdle /\ InitGlobIdle
  /\ InitLinksIdle /\ InitForkIdle

SpecConnect == InitConnect /\ [][NextConnect]_vars

\* The frames a step writes to the link.
Written == SubSeq(upstream', Len(upstream) + 1, Len(upstream'))

\* How many of the frames are of this type and name this channel.
FramesFor(frames, type, id, match) ==
  Cardinality({i \in 1..Len(frames) :
                 /\ frames[i].type = type
                 /\ frames[i].channel = fiobj_obj2cstr(id)
                 /\ frames[i].match = match})

ChannelExists(id) ==
  \E k \in {"pubsub", "patterns"} : fio_hash_find(coll[k], id) # 0

\* C37: whenever no subscribe or unsubscribe is in progress, the attached
\* engine's most recent notification for a channel name is subscribe if a
\* channel of that name is in the collection, and unsubscribe or none if not:
\* the unsubscribe of a destruction never follows the subscribe of a later
\* re-creation of the name.
C37_LastCallFollowsChannel ==
  (RootQuiet /\ ~crashed /\ \A w \in Links : links[w].pc \in {"idle", "closed"}) =>
    \A id \in {Ch42, PatCh} :
      LET calls == CallsFor(id)
      IN ChannelExists(id) <=>
           (calls # <<>> /\ calls[Len(calls)].op = "subscribe")

\* What the root's table for a link holds for channel id after the handler
\* has run on these frames in order: a PUBSUB_SUB inserts a mock
\* subscription, a PUBSUB_UNSUB removes it.
RECURSIVE RootHolds(_, _)
RootHolds(frames, id) ==
  IF frames = <<>> THEN FALSE
  ELSE LET f == frames[Len(frames)]
       IN IF f.channel = fiobj_obj2cstr(id) /\ f.type = CLUSTER_MESSAGE_PUBSUB_SUB
            THEN TRUE
          ELSE IF f.channel = fiobj_obj2cstr(id) /\ f.type = CLUSTER_MESSAGE_PUBSUB_UNSUB
            THEN FALSE
          ELSE RootHolds(SubSeq(frames, 1, Len(frames) - 1), id)

\* No subscribe or unsubscribe is in progress in the worker.
WorkerQuiet ==
  /\ \A a \in running : a.pc \notin {"create_push", "sd_unlock", "cd_lock",
                                     "cd_notify", "cd_free"}
  /\ \A t \in tasks : t.fn # "subscription_destroy"

\* C38: once the root has processed every frame the worker sent and no
\* subscribe or unsubscribe is in progress in the worker, the root's table
\* for the worker's link holds a mock subscription for c exactly if the
\* worker has a live pub/sub channel c: the SUB and UNSUB frames of a name
\* are written in the order the channel was created and destroyed.
C38_RootTableFollowsWorker ==
  (WorkerQuiet /\ ~crashed) =>
    (RootHolds(upstream, Ch42) <=> fio_hash_find(coll["pubsub"], Ch42) # 0)

(***************************************************************************)
(* The exit of the process.  The threads subscribe, unsubscribe, publish   *)
(* and deliver; when none of them is inside a call the process exits and   *)
(* one thread runs facil_cluster_at_exit.                                  *)
(***************************************************************************)
\* FACIL_PUBSUB_DEFAULT: the built-in cluster engine or the attached one.
DefaultEngines == {"CLUSTER", "ENGINE"}

\* The collection the drain turns to after k.
NextCollection(k) == IF k = "patterns" THEN "pubsub" ELSE "filters"

\* fio_hash_last(table)
fio_hash_last(table) == table[Len(table)]

\* A step of the threads before the exit.
WhileRunning(A) == leaving.pc = "run" /\ InProcess(A)

\* A deferred task taken from the queue: by a thread before the exit, by
\* defer_perform at the end of facil_cluster_at_exit.
FromQueue(A) == leaving.pc \in {"run", "perform"} /\ InProcess(A)

\* facil_cluster_at_exit begins: facil_cluster_in_child(NULL).
facil_cluster_at_exit ==
  /\ ~crashed
  /\ leaving.pc = "run"
  /\ running = {}
  /\ leaving' = [leaving EXCEPT !.pc = "drain", !.k = "patterns", !.ch = 0]
  /\ collLock' = [k \in Kinds |-> FALSE]
  /\ chans' = UnlockedChannels
  /\ UNCHANGED <<cfg, client, subs, coll, msgs, tasks, running, engine, late,
                 upstream, defers, sched, enqueued, crashed>>
  /\ UNCHANGED <<xvars, cvars, wvars, gvars, rvars, forked>>

\* while (fio_hash_count(...)): the last channel of the table is taken, or
\* the drain moves on to the next collection and then to the engines.
facil_cluster_at_exit_last ==
  /\ ~crashed
  /\ leaving.pc = "drain" /\ leaving.ch = 0
  /\ running = {}
  /\ leaving' =
       IF coll[leaving.k] # <<>>
         THEN [leaving EXCEPT !.ch = fio_hash_last(coll[leaving.k])]
       ELSE IF leaving.k = "filters" THEN [leaving EXCEPT !.pc = "engines"]
       ELSE [leaving EXCEPT !.k = NextCollection(leaving.k)]
  /\ UNCHANGED <<pvars, xvars, cvars, wvars, gvars, rvars, forked>>

\* while (fio_ls_embd_any(&ch->subscriptions)): the first subscription of the
\* list is unsubscribed, or the loop ends.  The fields of a freed channel are
\* read as they were left.
facil_cluster_at_exit_unsubscribe ==
  /\ ~crashed
  /\ leaving.pc = "drain" /\ leaving.ch # 0
  /\ running = {}
  /\ IF chans[leaving.ch].subscriptions # <<>>
       THEN /\ subscription_destroy(Head(chans[leaving.ch].subscriptions), {})
            /\ UNCHANGED leaving
       ELSE /\ leaving' = [leaving EXCEPT !.ch = 0]
            /\ UNCHANGED pvars
  /\ UNCHANGED <<xvars, cvars, wvars, gvars, rvars, forked>>

\* The same test on a channel channel_destroy has freed, when the memory no
\* longer holds what was left in it: the thread dies on it.
facil_cluster_at_exit_freed ==
  /\ ~crashed
  /\ leaving.pc = "drain" /\ leaving.ch # 0
  /\ running = {}
  /\ chans[leaving.ch].mem = "freed"
  /\ crashed' = TRUE
  /\ UNCHANGED <<cfg, client, sched, enqueued, subs, chans, coll, collLock, msgs, tasks,
                 running, engine, late, upstream, defers>>
  /\ UNCHANGED <<xvars, cvars, wvars, gvars, rvars, fvars>>

\* FACIL_PUBSUB_DEFAULT = FACIL_PUBSUB_CLUSTER and every engine is detached.
facil_cluster_at_exit_engines ==
  /\ ~crashed
  /\ leaving.pc = "engines"
  /\ leaving' = [leaving EXCEPT !.pc = "perform", !.default = "CLUSTER"]
  /\ late' = IF late.in THEN [late EXCEPT !.in = FALSE, !.pc = "detached"] ELSE late
  /\ UNCHANGED <<cfg, client, subs, chans, coll, collLock, msgs, tasks, running,
                 engine, upstream, defers, sched, enqueued, crashed>>
  /\ UNCHANGED <<xvars, cvars, wvars, gvars, rvars, forked>>

\* defer_perform() has emptied the queue: facil_cluster_at_exit returns.
facil_cluster_at_exit_return ==
  /\ ~crashed
  /\ leaving.pc = "perform"
  /\ running = {} /\ tasks = {}
  /\ leaving' = [leaving EXCEPT !.pc = "done"]
  /\ UNCHANGED <<pvars, xvars, cvars, wvars, gvars, rvars, forked>>

\* The steps of facil_cluster_at_exit and of the calls it makes.
ExitSteps ==
  \/ facil_cluster_at_exit_last
  \/ facil_cluster_at_exit_unsubscribe
  \/ facil_cluster_at_exit_engines
  \/ facil_cluster_at_exit_return
  \/ \E a \in running : InProcess(subscription_destroy_unlock(a))
  \/ \E a \in running : InProcess(channel_destroy_lock(a))
  \/ \E a \in running : InProcess(channel_destroy_notify(a))
  \/ \E a \in running : InProcess(channel_destroy_free(a))
  \/ \E t \in tasks : FromQueue(subscription_destroy_task(t))
  \/ \E t \in tasks : FromQueue(perform_subscription_callback_defer(t))
  \/ \E t \in tasks : FromQueue(perform_subscription_callback(t))
  \/ \E a \in running : InProcess(perform_subscription_callback_return(a, FALSE))

NextExit ==
  \/ facil_cluster_at_exit
  \/ ExitSteps
  \/ facil_cluster_at_exit_freed
  \/ \E a \in running : InProcess(use_after_free(a))
  \/ \E s \in Subs : \E args \in cfg.subArgs : WhileRunning(subscription_create_find(s, args))
  \/ \E a \in running : InProcess(subscription_create_push(a))
  \/ \E s \in Subs : WhileRunning(facil_unsubscribe(s))
  \/ \E args \in cfg.pubArgs : WhileRunning(publish2process_start(args))
  \/ \E a \in running : InProcess(publish2channel(a))
  \/ \E a \in running : InProcess(publish2channel_unlock(a))
  \/ \E a \in running : InProcess(publish2process_unlock(a))
  \/ \E a \in running : InProcess(publish2process_patterns(a))

\* A process with an engine attached, which may be the default engine; its
\* threads subscribe to "ch.42" and to the pattern "ch.*", unsubscribe and
\* publish to "ch.42".
ExitRun ==
  [threads |-> NThreads, client |-> 1, subs |-> NSubs,
   subArgs |-> {SubArgs(0, Ch42, FALSE), SubArgs(0, PatCh, TRUE)},
   pubArgs |-> {PubArgs(0, Ch42)}]

InitExit ==
  /\ cfg = ExitRun
  /\ client = ExitRun.client
  /\ subs = [s \in Subs |-> NoSub]
  /\ chans = [x \in Chans |-> NoChan]
  /\ coll = [k \in Kinds |-> <<>>]
  /\ collLock = [k \in Kinds |-> FALSE]
  /\ msgs = [m \in Msgs |-> NoMsg]
  /\ tasks = {}
  /\ running = {}
  /\ engine = [x \in Chans |-> NoCalls]
  /\ late = [NoEngine EXCEPT !.in = TRUE, !.pc = "attached"]
  /\ meta = <<>>
  /\ refused = <<>>
  /\ upstream = <<>>
  /\ defers = 0
  /\ sched = [m \in Msgs |-> {}]
  /\ enqueued = [m \in Msgs |-> <<>>]
  /\ crashed = FALSE
  /\ InitClusterIdle /\ InitWireIdle /\ InitGlobIdle /\ InitLinksIdle
  /\ forked = <<>>
  /\ \E d \in DefaultEngines :
       leaving = [pc |-> "run", k |-> "patterns", ch |-> 0, default |-> d]

SpecExit == InitExit /\ [][NextExit]_vars

\* The thread that runs facil_cluster_at_exit is fair, and so are the calls
\* and the deferred tasks it runs.
FairExit == SpecExit /\ WF_vars(ExitSteps)

\* facil_cluster_at_exit has returned and left nothing behind.
Drained ==
  /\ leaving.pc = "done"
  /\ \A k \in Kinds : coll[k] = <<>>
  /\ \A s \in Subs : subs[s].st # "none" =>
       subs[s].st = "freed" /\ subs[s].on_unsubscribe = 1
  /\ ~late.in
  /\ leaving.default = "CLUSTER"

\* C40: the at-exit drain terminates from any state of the postoffice, and
\* when it returns the three collections are empty, on_unsubscribe has been
\* called exactly once for every subscription that was still subscribed, no
\* engine is attached and the default engine is the built-in CLUSTER engine.
C40_AtExitDrains == (leaving.pc = "drain") ~> Drained

\* The same, unless the thread dies on a freed channel.
AtExitDrainsOrDies == (leaving.pc = "drain") ~> (Drained \/ crashed)
====
